---- MODULE Spec2Model ----
(***************************************************************************)
(* A model of the reliability engine of manage-social-messages-api:        *)
(*   - the circuit breaker and the retry engine composed by                *)
(*     SocialMediaService.buildHttpHandler (SpecBreaker; SpecOrdered with  *)
(*     the writes of saveStateFn applied in issue order),                  *)
(*   - the reply outbox of BaseMentionAdapter (SpecReply),                 *)
(*   - the comment ingestion of MentionCommentAdapter (SpecIngest),        *)
(*   - two overlapping calls of one breaker (SpecConcurrent),              *)
(*   - MentionDataService.update (SpecUpdate),                             *)
(*   - the FETCH_COMMENTS tasks of fetchAndSyncMentions (SpecFetch),       *)
(*   - MentionDataService.findAll and its race (SpecList, SpecListFair),   *)
(*   - findAll next to a reply and the reply recovery (SpecEngine),        *)
(*   - every writer of table audits side by side (SpecTrail),              *)
(*   - the health endpoint over the circuit rows (SpecHealth),             *)
(*   - the fan-out helper processPromises (SpecFan).                       *)
(* Every atomic action is one run-to-completion block of the Node.js event *)
(* loop (the code between two awaits) or one SQL statement / transaction   *)
(* commit of the store.                                                    *)
(***************************************************************************)
EXTENDS Integers, Sequences, FiniteSets, TLC

VARIABLES
    now,               \* the wall clock, in ms (Date.now(), NOW())
    ticks,             \* how often the clock has advanced
    \* ---- circuit breaker / retry (one circuit key, several processes)
    cbRow,             \* the circuit_breaker_states row of the key
    localState,        \* per instance: the closure variable localState
    stateInitialized,  \* per instance: the closure variable stateInitialized
    loadBuf,           \* per instance: the loadStateFn query and what it returned
    pending,           \* per instance: saveStateFn writes in flight, in issue order
    call,              \* per instance and slot: one logical call of the handler
    callsMade,         \* logical calls started so far
    visited,           \* per instance: the states localState.state went through
    hist,              \* per instance: observations about the run so far
    \* ---- reply outbox
    tasks,             \* the committed rows of table tasks
    nextTaskId,        \* the sequence behind tasks.id
    mentionState,      \* per mention: column state of its row
    children,          \* per mention: its child mentions of type REPLY
    audits,            \* per mention: its REPLY_ATTEMPT audit rows
    upstreamOk,        \* per mention: replies the upstream accepted
    rcall,             \* per reply call: where it is in BaseMentionAdapter.reply
    recov,             \* the recovery pass of a process that starts
    rhist,             \* observations about the reply calls so far
    \* ---- ingestion
    rows,              \* column socialMediaPlatformRef of the committed mentions rows
    ingest,            \* per fetch worker: where it is in _createMentions
    surfaced,          \* a duplicate-key error reached a caller of _createMentions
    \* ---- operator updates
    assignee,          \* per mention: column userId of its row
    assignAudits,      \* per mention id: the ASSIGNMENT audit rows that reference it
    ucall,             \* per update call: where it is in MentionDataService.update
    \* ---- fetch pipeline and listMentions
    ftasks,            \* the committed FETCH_COMMENTS rows of table tasks
    fworker,           \* per caller: where it is in fetchAndSyncMentions
    lcall,             \* the listMentions call: where it is in findAll
    frecov,            \* the fetch recovery pass of a process that starts
    \* ---- health endpoint
    otherRows,         \* the circuit_breaker_states rows of the other circuit keys
    hcall,             \* the GET /v1/status/health request: where it is
    \* ---- fan-out helper
    fan                \* one processPromises call: its locals and its operations

breakerVars == <<cbRow, localState, stateInitialized, loadBuf, pending,
                 call, callsMade, visited, hist>>
clockVars == <<now, ticks>>
replyVars == <<tasks, nextTaskId, mentionState, children, audits, upstreamOk,
               rcall, recov, rhist>>
ingestVars == <<rows, ingest, surfaced>>
updateVars == <<assignee, assignAudits, ucall>>
fetchVars == <<ftasks, fworker, lcall, frecov>>
healthVars == <<otherRows, hcall>>
dataVars == <<replyVars, ingestVars, updateVars, fetchVars, healthVars, fan>>
vars == <<clockVars, breakerVars, healthVars, replyVars, ingestVars, updateVars, fetchVars,
          fan>>

----------------------------------------------------------------------------
(* Bounds of the model *)
MaxTicks == 2          \* clock advances per behaviour, one process
MaxCalls == 3          \* logical calls of the handler per behaviour, one process
MaxPending == 2        \* saveStateFn writes in flight per instance
SharedTicks == 1       \* clock advances per behaviour, two processes
SharedCalls == 3       \* logical calls per behaviour, two processes together
SharedPending == 1     \* saveStateFn writes in flight per instance, two processes
TickMs == 30000        \* one clock advance, in ms
StartTime == 100000    \* the clock when the processes start
MaxReplies == 3        \* reply calls per behaviour
ReplyTicks == 2        \* clock advances per behaviour of the reply outbox
MaxWorkers == 2        \* fetch workers running _createMentions
MaxRounds == 2         \* statements per fetch worker
MaxList == 2           \* comments per upstream list
ConcCalls == 3         \* logical calls per behaviour, one process, calls overlapping
ConcTicks == 1         \* clock advances per behaviour, calls overlapping
ConcPending == 1       \* saveStateFn writes in flight, calls overlapping
MaxUpdates == 2        \* update calls per behaviour
MaxFetchers == 2       \* concurrent callers of fetchAndSyncMentions
MaxPosts == 2          \* posts per upstream history
FetchTicks == 3        \* clock advances per behaviour of the fetch pipeline
MaxEntities == 4       \* entities handed to one processPromises call
MaxLimit == 3          \* largest promisesLimit of a processPromises call

(* Program constants *)
maxFailures == 5
resetTimeout == 60000
maxRetries == 3
REPLY_INTERVAL == 300000   \* SOCIAL_MEDIA_API_TASK_REPLY_INTERVAL, '5 minutes'
FETCH_INTERVAL == 600000   \* SOCIAL_MEDIA_API_TASK_FETCH_COMMENTS_INTERVAL, '10 minutes'
Null == -1             \* JavaScript null in a numeric field

Instances == {"A", "B"}
Slots == {1, 2}

CLOSED == "CLOSED"
OPEN == "OPEN"
HALF_OPEN == "HALF_OPEN"

----------------------------------------------------------------------------
(* JavaScript coercions used by the breaker *)

\* x || null, x || 0 : a falsy number becomes the default
OrDefault(x, d) == IF x = 0 \/ x = Null THEN d ELSE x

\* null compares as 0 in  now >= localState.nextAttemptTime
ToNumber(x) == IF x = Null THEN 0 ELSE x

InitialLocalState ==
    [state |-> CLOSED, failures |-> 0, lastFailureTime |-> Null, nextAttemptTime |-> Null]

NoRow == [exists |-> FALSE]

RowOf(data) == [exists |-> TRUE, data |-> data]

\* the object persistState hands to saveStateFn (its timestamp field, which no
\* code reads back, is left out)
Snapshot(L) ==
    [state |-> L.state, failures |-> L.failures, lastFailureTime |-> L.lastFailureTime,
     nextAttemptTime |-> L.nextAttemptTime]

\* initializeState: merge of the loaded state_data into localState
MergeExternal(ext) ==
    [state |-> ext.state,
     failures |-> OrDefault(ext.failures, 0),
     lastFailureTime |-> OrDefault(ext.lastFailureTime, Null),
     nextAttemptTime |-> OrDefault(ext.nextAttemptTime, Null)]

----------------------------------------------------------------------------
(* HTTP errors and the retry predicates *)

\* status 0: no response received (network error, timeout)
HttpStatuses == {0, 500, 429, 400}

HttpError(status) == [response |-> status # 0, status |-> status]

\* the Error objects the breaker creates itself carry no response
BreakerError == [response |-> FALSE, status |-> 0]

shouldRetryHttpError(error) ==
    IF ~error.response THEN TRUE
    ELSE error.status >= 500 \/ error.status = 429

\* a shouldRetry that does not look at the breaker
shouldRetryAnyState(error, currentState) == shouldRetryHttpError(error)

\* buildHttpHandler: shouldRetry, reading breaker.getState()
shouldRetry(error, currentState) ==
    IF currentState = OPEN \/ currentState = HALF_OPEN THEN FALSE
    ELSE shouldRetryHttpError(error)

\* a retry engine that never runs out of attempts
RetryWithoutBudget(attempt, error, currentState) == ~shouldRetry(error, currentState)

\* exponentialBackoff: the catch block's decision to rethrow
RetryGivesUp(attempt, error, currentState) ==
    attempt = maxRetries \/ ~shouldRetry(error, currentState)

----------------------------------------------------------------------------
(* The circuit breaker: circuitBreaker() in exponential-backoff.js *)

\* changeState: the new localState and whether persistState was called
changeState(L, newState) ==
    [ls |-> [L EXCEPT !.state = newState], persisted |-> L.state # newState]

\* a rejection test whose window closes resetTimeout too early
CircuitRejectsEarly(L, t) ==
    L.state = OPEN /\ ~(t + resetTimeout >= ToNumber(L.nextAttemptTime))

\* execute: the circuit is OPEN and it is too early for a probe
CircuitRejects(L, t) ==
    L.state = OPEN /\ ~(t >= ToNumber(L.nextAttemptTime))

\* execute: OPEN and now >= nextAttemptTime moves to HALF_OPEN before fn runs
BeforeFn(L, t) ==
    IF L.state = OPEN /\ t >= ToNumber(L.nextAttemptTime)
    THEN changeState(L, HALF_OPEN)
    ELSE [ls |-> L, persisted |-> FALSE]

\* a success path that closes the circuit without resetting the counters
OnSuccessKeepsCounters(L) == changeState(L, CLOSED)

\* execute, try block: fn succeeded
OnSuccess(L) ==
    changeState([L EXCEPT !.failures = 0, !.lastFailureTime = Null,
                          !.nextAttemptTime = Null], CLOSED)

\* a threshold that opens one failure late
shouldOpenCircuitLate(L) ==
    L.state = HALF_OPEN \/ L.failures > maxFailures

\* execute, catch block: shouldOpenCircuit, read after failures++
shouldOpenCircuit(L) ==
    L.state = HALF_OPEN \/ L.failures >= maxFailures

\* execute, catch block: fn failed; t is the now read before fn was invoked.
\* opened tells whether the circuit-opened Error replaces the original one.
OnFailure(L, t) ==
    LET L1 == [L EXCEPT !.failures = @ + 1, !.lastFailureTime = t]
    IN IF shouldOpenCircuit(L1)
       THEN LET r == changeState([L1 EXCEPT !.nextAttemptTime = t + resetTimeout], OPEN)
            IN [ls |-> r.ls, persisted |-> r.persisted, opened |-> TRUE]
       ELSE [ls |-> L1, persisted |-> TRUE, opened |-> FALSE]

----------------------------------------------------------------------------
(* State of one logical call of the handler  retry(breaker(requestFn)) *)

\* pc: idle, init (awaiting initializeState), fn (awaiting fn), sleep (backoff);
\* now: the Date.now() execute read before invoking fn;
\* entered: localState.state at the moment execute invoked fn
IdleCall == [pc |-> "idle", attempt |-> 0, now |-> 0, entered |-> "none"]

IdleLoad == [st |-> "idle", row |-> NoRow, failed |-> FALSE]

\* scenario: k in 0..maxFailures when the breaker started CLOSED with failures = 0,
\* fn was invoked k times and failed each time; maxFailures + 1 when one success
\* followed these maxFailures failures; Off otherwise
Off == maxFailures + 2

InitialHist ==
    [scenario |-> 0,
     retryableOnly |-> TRUE,   \* every failure of fn so far was a retryable one
     lastExecute |-> "none",   \* the last execute: rejected, or fn invoked
     lastFn |-> "none"]        \* the last return of fn: ok, failed, opened

ScenarioAfter(k, ok) ==
    IF k = Off THEN Off
    ELSE IF ok THEN (IF k = maxFailures THEN maxFailures + 1 ELSE Off)
    ELSE IF k < maxFailures THEN k + 1 ELSE Off

\* rows an earlier run of the service can have left behind for the key
PriorRows ==
    {NoRow,
     RowOf([state |-> CLOSED, failures |-> maxFailures - 1,
            lastFailureTime |-> StartTime - TickMs, nextAttemptTime |-> Null]),
     RowOf([state |-> OPEN, failures |-> maxFailures,
            lastFailureTime |-> StartTime - TickMs,
            nextAttemptTime |-> StartTime - TickMs + resetTimeout])}

\* localState after a block, the state history, and the write persistState issues.
\* The write's object is built in a microtask that runs before any other block.
Apply(i, L2, persist) ==
    /\ localState' = [localState EXCEPT ![i] = L2]
    /\ visited' = [visited EXCEPT ![i] =
                     IF L2.state # @[Len(@)] THEN Append(@, L2.state) ELSE @]
    /\ pending' = [pending EXCEPT ![i] = IF persist THEN Append(@, Snapshot(L2)) ELSE @]

\* exponentialBackoff, catch block: rethrow to the caller or sleep before a retry
AfterThrow(i, s, c, error, currentState) ==
    IF RetryGivesUp(c.attempt, error, currentState)
    THEN call' = [call EXCEPT ![i][s] = IdleCall]
    ELSE call' = [call EXCEPT ![i][s] =
                     [c EXCEPT !.pc = "sleep", !.now = 0, !.entered = "none"]]

\* execute from  const now = Date.now()  up to the invocation of fn, on local state L
EnterExecute(i, s, L, c, h) ==
    IF CircuitRejects(L, now)
    THEN /\ Apply(i, L, FALSE)
         /\ AfterThrow(i, s, c, BreakerError, L.state)
         /\ hist' = [hist EXCEPT ![i] = [h EXCEPT !.lastExecute = "rejected"]]
    ELSE LET r == BeforeFn(L, now)
         IN /\ Apply(i, r.ls, r.persisted)
            /\ call' = [call EXCEPT ![i][s] =
                          [c EXCEPT !.pc = "fn", !.now = now, !.entered = r.ls.state]]
            /\ hist' = [hist EXCEPT ![i] = [h EXCEPT !.lastExecute = "invoked"]]

\* A caller invokes the handler: attempt 0 of exponentialBackoff calls execute,
\* which awaits initializeState (the first caller issues the load).
StartCall(i, s, maxCalls, cap) ==
    /\ call[i][s].pc = "idle"
    /\ callsMade < maxCalls
    /\ Len(pending[i]) < cap
    /\ callsMade' = callsMade + 1
    /\ IF ~stateInitialized[i]
       THEN /\ stateInitialized' = [stateInitialized EXCEPT ![i] = TRUE]
            /\ loadBuf' = [loadBuf EXCEPT ![i].st = "inflight"]
            /\ call' = [call EXCEPT ![i][s] = [IdleCall EXCEPT !.pc = "init"]]
            /\ UNCHANGED <<localState, visited, pending, hist>>
       ELSE /\ EnterExecute(i, s, localState[i], IdleCall, hist[i])
            /\ UNCHANGED <<stateInitialized, loadBuf>>
    /\ UNCHANGED <<clockVars, cbRow, dataVars>>

\* loadStateFn: the SELECT reads the row, or the query fails
LoadRead(i, ok) ==
    /\ loadBuf[i].st = "inflight"
    /\ loadBuf' = [loadBuf EXCEPT ![i] =
                     [st |-> "read", row |-> IF ok THEN cbRow ELSE NoRow, failed |-> ~ok]]
    /\ UNCHANGED <<clockVars, cbRow, localState, stateInitialized, pending,
                   call, callsMade, visited, hist, dataVars>>

\* an initializeState that drops what it loaded
LoadedStateDropped(b, L) == L

\* the local state initializeState leaves: the merged row, or localState as it is
\* when there is no row or the load failed
LoadedState(b, L) ==
    IF ~b.failed /\ b.row.exists THEN MergeExternal(b.row.data) ELSE L

\* initializeState resumes: merge the loaded state, then the first caller goes on
LoadLand(i, s, cap) ==
    /\ loadBuf[i].st = "read"
    /\ call[i][s].pc = "init"
    /\ Len(pending[i]) < cap
    /\ LET L == LoadedState(loadBuf[i], localState[i])
       IN EnterExecute(i, s, L, call[i][s],
                       [hist[i] EXCEPT !.scenario = IF L = InitialLocalState THEN 0 ELSE Off])
    /\ loadBuf' = [loadBuf EXCEPT ![i].st = "done"]
    /\ UNCHANGED <<clockVars, cbRow, stateInitialized, callsMade, dataVars>>

\* fn (the HTTP request) returns: status 200 is a response, anything else throws
FnReturn(i, s, status, cap) ==
    /\ call[i][s].pc = "fn"
    /\ Len(pending[i]) < cap
    /\ LET c == call[i][s]
           L == localState[i]
       IN IF status = 200
          THEN LET r == OnSuccess(L)
               IN /\ Apply(i, r.ls, r.persisted)
                  /\ call' = [call EXCEPT ![i][s] = IdleCall]
                  /\ hist' = [hist EXCEPT ![i].scenario = ScenarioAfter(@, TRUE),
                                          ![i].lastFn = "ok"]
          ELSE LET r == OnFailure(L, c.now)
                   error == IF r.opened THEN BreakerError ELSE HttpError(status)
               IN /\ Apply(i, r.ls, r.persisted)
                  /\ AfterThrow(i, s, c, error, r.ls.state)
                  /\ hist' = [hist EXCEPT ![i].scenario = ScenarioAfter(@, FALSE),
                                          ![i].retryableOnly =
                                              @ /\ shouldRetryHttpError(HttpError(status)),
                                          ![i].lastFn =
                                              IF r.opened THEN "opened" ELSE "failed"]
    /\ UNCHANGED <<clockVars, cbRow, stateInitialized, loadBuf, callsMade, dataVars>>

\* the backoff sleep ends: the next attempt calls execute again
WakeUp(i, s, cap) ==
    /\ call[i][s].pc = "sleep"
    /\ Len(pending[i]) < cap
    /\ EnterExecute(i, s, localState[i], [call[i][s] EXCEPT !.attempt = @ + 1], hist[i])
    /\ UNCHANGED <<clockVars, cbRow, stateInitialized, loadBuf, callsMade, dataVars>>

RemoveAt(q, k) == [j \in 1..(Len(q) - 1) |-> IF j < k THEN q[j] ELSE q[j + 1]]

\* saveStateFn: the upsert of one write in flight reaches the store. The writes are
\* independent un-awaited queries of the connection pool: any of them may land first.
WriteLand(i, k) ==
    /\ k \in 1..Len(pending[i])
    /\ cbRow' = RowOf(pending[i][k])
    /\ pending' = [pending EXCEPT ![i] = RemoveAt(@, k)]
    /\ UNCHANGED <<clockVars, localState, stateInitialized, loadBuf, call,
                   callsMade, visited, hist, dataVars>>

\* time passes
Tick(maxTicks, step) ==
    /\ ticks < maxTicks
    /\ now' = now + step
    /\ ticks' = ticks + 1
    /\ UNCHANGED <<breakerVars, dataVars>>

----------------------------------------------------------------------------
(* The stores and calls of the reply outbox and of the ingestion *)

Mentions == {"m1"}
ReplyCalls == 1..MaxReplies
Workers == 1..MaxWorkers

REPLY_MENTION == "REPLY_MENTION"
REPLY_MENTION_IGNORED == "REPLY_MENTION_IGNORED"

REPLY_ATTEMPT == "REPLY_ATTEMPT"
REPLIED == "REPLIED"
PROVIDER_ERROR == "PROVIDER_ERROR"

\* pc: idle, delete, insert, upstream, commit, ignore, done;
\* now: the  new Date()  taken when reply begins; task: the id of the task created
IdleReply ==
    [pc |-> "idle", mention |-> "m1", now |-> 0, task |-> 0, result |-> "none",
     threw |-> FALSE]

\* pc: down, run (the tasks selected are being processed), up
DownRecovery == [pc |-> "down", jobs |-> {}]

InitialReplyHist ==
    [allOk |-> TRUE,           \* every upstream reply so far was accepted
     staleDeleted |-> FALSE,   \* some reply deleted a task as stale
     overlapped |-> FALSE]     \* some reply began while another was in flight

InitReplyVars ==
    /\ tasks = {}
    /\ nextTaskId = 1
    /\ mentionState = [m \in Mentions |-> "NULL"]
    /\ children = [m \in Mentions |-> 0]
    /\ audits = [m \in Mentions |-> 0]
    /\ upstreamOk = [m \in Mentions |-> 0]
    /\ rcall = [c \in ReplyCalls |-> IdleReply]
    /\ recov = DownRecovery
    /\ rhist = InitialReplyHist

\* pc: idle, select (the statement has its snapshot), done
IdleIngest == [pc |-> "idle", list |-> <<>>, seen |-> {}, rounds |-> 0]

InitIngestVars ==
    /\ rows = <<>>
    /\ ingest = [w \in Workers |-> IdleIngest]
    /\ surfaced = FALSE

\* Absent: a patch without the field userId (undefined)
Absent == -2

\* pc: idle, audit, apply, done; userId: patch.userId; state: data.state once update
\* has set it (absent, ASSIGNMENT or NULL); audits: audit rows the call has written
IdleUpdate ==
    [pc |-> "idle", id |-> "m1", userId |-> Absent, state |-> "absent",
     result |-> "none", audits |-> 0]

UpdateCalls == 1..MaxUpdates

\* ids an operator may put in the route: a mention that exists, and one that does not
MentionIds == Mentions \cup {"m9"}

InitUpdateVars ==
    /\ assignee = [m \in Mentions |-> Null]
    /\ assignAudits = [m \in MentionIds |-> 0]
    /\ ucall = [u \in UpdateCalls |-> IdleUpdate]

FetchWorkers == 1..MaxFetchers

\* pc: idle, posts (awaiting findAllPosts), query (awaiting the recent tasks),
\* create (awaiting Task.create), comments (processFetchTask awaiting the comments
\* and their inserts), finish (awaiting Task.update), done, crashed;
\* failed (processFetchTask threw);
\* posts: what findAllPosts returned; toFetch: postsToFetch; seen: the ids of the
\* task rows _findFreshlyFetchedPostIds read; task: the id of the task created;
\* got: the posts whose comments request succeeded
IdleFetch ==
    [pc |-> "idle", posts |-> <<>>, toFetch |-> <<>>, seen |-> {}, task |-> 0,
     got |-> {}]

\* pc: idle, racing (Promise.race pending), select (awaiting Mention.findAll), done;
\* isSyncing, errors: the meta object; result: the mentions returned
IdleList == [pc |-> "idle", isSyncing |-> FALSE, errors |-> 0, result |-> <<>>]

\* pc: down, up (init has selected the fetch tasks to process again)
DownFetchRecovery == [pc |-> "down", jobs |-> {}]

InitFetchVars ==
    /\ ftasks = {}
    /\ fworker = [w \in FetchWorkers |-> IdleFetch]
    /\ lcall = IdleList
    /\ frecov = DownFetchRecovery

\* the circuit keys of buildHttpHandler besides the one whose breaker is modelled
OtherKeys == {"twitter", "facebook"}

\* pc: idle, query (awaiting the SELECT), built (findHealth returned), done;
\* rows: what the SELECT returned; body, code: the response
NoBody == [status |-> "none", circuits |-> {}]

IdleHealth == [pc |-> "idle", rows |-> {}, body |-> NoBody, code |-> 0]

InitHealthVars ==
    /\ otherRows = [k \in OtherKeys |-> NoRow]
    /\ hcall = IdleHealth

\* pc: idle, loop (the for loop is between two iterations), await (handlePromise
\* awaits Promise.all of a full batch), last (processPromises awaits the remaining
\* promises), resolved, rejected.
\* index: entities submitted so far; promises: the entities of the array promises;
\* data: the accumulator (an entity for its result, 0 for undefined);
\* ops: per entity none, running, ok or failed; onError: calls of onError per entity;
\* failedFirst: the entity whose operation failed first; error: what the call
\* rejected with
Entities == 1..MaxEntities

IdleFan ==
    [pc |-> "idle", limit |-> 1, n |-> 0, breakOnError |-> TRUE, index |-> 0,
     promises |-> <<>>, data |-> <<>>, ops |-> [i \in Entities |-> "none"],
     onError |-> [i \in Entities |-> 0], failedFirst |-> 0, error |-> 0]

InitFanVars == fan = IdleFan

InitBreakerVars ==
    /\ localState = [i \in Instances |-> InitialLocalState]
    /\ stateInitialized = [i \in Instances |-> FALSE]
    /\ loadBuf = [i \in Instances |-> IdleLoad]
    /\ pending = [i \in Instances |-> <<>>]
    /\ call = [i \in Instances |-> [s \in Slots |-> IdleCall]]
    /\ callsMade = 0
    /\ visited = [i \in Instances |-> <<CLOSED>>]
    /\ hist = [i \in Instances |-> InitialHist]

InitClock ==
    /\ now = StartTime
    /\ ticks = 0

\* one process, its calls one after the other
InitBreaker ==
    /\ InitClock /\ InitBreakerVars /\ InitReplyVars /\ InitIngestVars
    /\ InitUpdateVars /\ InitFetchVars /\ InitHealthVars /\ InitFanVars
    /\ cbRow \in PriorRows

NextBreaker ==
    \/ StartCall("A", 1, MaxCalls, MaxPending)
    \/ \E ok \in BOOLEAN : LoadRead("A", ok)
    \/ LoadLand("A", 1, MaxPending)
    \/ \E status \in {200} \cup HttpStatuses : FnReturn("A", 1, status, MaxPending)
    \/ WakeUp("A", 1, MaxPending)
    \/ \E k \in 1..Len(pending["A"]) : WriteLand("A", k)
    \/ Tick(MaxTicks, TickMs)

SpecBreaker == InitBreaker /\ [][NextBreaker]_vars

\* one process, its calls one after the other, over a store that applies the
\* writes of saveStateFn in the order they were issued
NextOrdered ==
    \/ StartCall("A", 1, MaxCalls, MaxPending)
    \/ \E ok \in BOOLEAN : LoadRead("A", ok)
    \/ LoadLand("A", 1, MaxPending)
    \/ \E status \in {200} \cup HttpStatuses : FnReturn("A", 1, status, MaxPending)
    \/ WakeUp("A", 1, MaxPending)
    \/ WriteLand("A", 1)
    \/ Tick(MaxTicks, TickMs)

SpecOrdered == InitBreaker /\ [][NextOrdered]_vars

\* two processes sharing the circuit key, each making its calls one after the other
NextShared ==
    \/ \E i \in Instances : StartCall(i, 1, SharedCalls, SharedPending)
    \/ \E i \in Instances, ok \in BOOLEAN : LoadRead(i, ok)
    \/ \E i \in Instances : LoadLand(i, 1, SharedPending)
    \/ \E i \in Instances, status \in {200} \cup HttpStatuses : FnReturn(i, 1, status, SharedPending)
    \/ \E i \in Instances : WakeUp(i, 1, SharedPending)
    \/ \E i \in Instances : \E k \in 1..Len(pending[i]) : WriteLand(i, k)
    \/ Tick(SharedTicks, TickMs)

SpecShared == InitBreaker /\ [][NextShared]_vars

\* one process whose callers overlap: a second logical call of the handler starts
\* while the first is awaiting initializeState, fn or its backoff sleep
StartConcurrent(s) ==
    /\ s = 2 => call["A"][1].pc # "idle"
    /\ StartCall("A", s, ConcCalls, ConcPending)

NextConcurrent ==
    \/ \E s \in Slots : StartConcurrent(s)
    \/ \E ok \in BOOLEAN : LoadRead("A", ok)
    \/ \E s \in Slots : LoadLand("A", s, ConcPending)
    \/ \E s \in Slots, status \in {200} \cup HttpStatuses : FnReturn("A", s, status, ConcPending)
    \/ \E s \in Slots : WakeUp("A", s, ConcPending)
    \/ \E k \in 1..Len(pending["A"]) : WriteLand("A", k)
    \/ Tick(ConcTicks, TickMs)

SpecConcurrent == InitBreaker /\ [][NextConcurrent]_vars

----------------------------------------------------------------------------
(* The reply outbox: BaseMentionAdapter.reply, processReplyTask and init *)

ReplyTask(id, m, t) ==
    [id |-> id, code |-> REPLY_MENTION, mentionId |-> m, startedAt |-> t,
     finishedAt |-> Null, result |-> "none"]

IgnoredTask(id, m, t) ==
    [id |-> id, code |-> REPLY_MENTION_IGNORED, mentionId |-> m, startedAt |-> t,
     finishedAt |-> t, result |-> "none"]

\* an audit that keeps one row per mention, overwriting the row it finds
AuditUpsert(a, m) == [a EXCEPT ![m] = 1]

\* AuditDataService.audit: Audit.create adds one row (a: rows per mention)
AuditCreate(a, m) == [a EXCEPT ![m] = @ + 1]

\* reply: the rows its DELETE removes
StaleReplyTasks(ts, m, t) ==
    {x \in ts : /\ x.code = REPLY_MENTION
                /\ x.mentionId = m
                /\ x.finishedAt = Null
                /\ x.startedAt < t - REPLY_INTERVAL}

\* a table without the unique index
NoReplyIndex(ts, m) == FALSE

\* tasks_code_data_mentionid_idx: a REPLY_MENTION row for mention m cannot be added
ViolatesReplyIndex(ts, m) ==
    \E x \in ts : x.code = REPLY_MENTION /\ x.mentionId = m

\* getRecentTasksQuery with includeUnfinished, for type REPLY_MENTION. A row's
\* createdAt is not before its startedAt, so the startedAt test implies the
\* createdAt test.
RecentUnfinished(ts, t) ==
    {x \in ts : /\ x.code = REPLY_MENTION
                /\ x.startedAt >= t - REPLY_INTERVAL
                /\ x.finishedAt = Null}

\* a Task.update that sets finishedAt whatever the status of the result
FinishTaskAnyStatus(ts, id, result, t) ==
    {IF x.id = id THEN [x EXCEPT !.finishedAt = t, !.result = result] ELSE x : x \in ts}

\* processReplyTask: Task.update ... where id = task.id
FinishTask(ts, id, result, t) ==
    {IF x.id = id
     THEN [x EXCEPT !.finishedAt = IF result = "success" THEN t ELSE Null,
                    !.result = result]
     ELSE x : x \in ts}

\* what the upstream reply call gives: a result whose status is success, a result
\* with another status, or an exception
ReplyOutcomes == {"success", "other", "throw"}

InFlight == {c \in ReplyCalls : rcall[c].pc \notin {"idle", "done"}}

\* MentionDataService.reply validates, loads the mention and calls adapter.reply,
\* which takes  now = new Date()
ReplyStart(c, m) ==
    /\ rcall[c].pc = "idle"
    /\ \A d \in ReplyCalls : d < c => rcall[d].pc # "idle"
    /\ rcall' = [rcall EXCEPT ![c] = [IdleReply EXCEPT !.pc = "delete", !.mention = m,
                                                       !.now = now]]
    /\ rhist' = [rhist EXCEPT !.overlapped = @ \/ InFlight # {}]
    /\ UNCHANGED <<tasks, nextTaskId, mentionState, children, audits, upstreamOk, recov>>
    /\ UNCHANGED <<clockVars, fan, breakerVars, healthVars, ingestVars, updateVars, fetchVars>>

\* reply: clear old reply tasks
ReplyDeleteStale(c) ==
    /\ rcall[c].pc = "delete"
    /\ LET stale == StaleReplyTasks(tasks, rcall[c].mention, now)
       IN /\ tasks' = tasks \ stale
          /\ rhist' = [rhist EXCEPT !.staleDeleted = @ \/ stale # {}]
    /\ rcall' = [rcall EXCEPT ![c].pc = "insert"]
    /\ UNCHANGED <<nextTaskId, mentionState, children, audits, upstreamOk, recov>>
    /\ UNCHANGED <<clockVars, fan, breakerVars, healthVars, ingestVars, updateVars, fetchVars>>

\* a reply whose audit row is written by a statement of its own, before the
\* transaction of the task and of the mention
ReplyInsertAuditOutside(c) ==
    /\ rcall[c].pc = "insert"
    /\ LET m == rcall[c].mention
       IN /\ audits' = AuditCreate(audits, m)
          /\ IF ViolatesReplyIndex(tasks, m)
             THEN /\ rcall' = [rcall EXCEPT ![c].pc = "ignore"]
                  /\ UNCHANGED <<tasks, nextTaskId, mentionState>>
             ELSE /\ tasks' = tasks \cup {ReplyTask(nextTaskId, m, rcall[c].now)}
                  /\ nextTaskId' = nextTaskId + 1
                  /\ mentionState' = [mentionState EXCEPT ![m] = REPLY_ATTEMPT]
                  /\ rcall' = [rcall EXCEPT ![c].pc = "upstream", ![c].task = nextTaskId]
    /\ UNCHANGED <<children, upstreamOk, recov, rhist>>
    /\ UNCHANGED <<clockVars, fan, breakerVars, healthVars, ingestVars, updateVars, fetchVars>>

\* reply: the transaction that creates the task, audits and marks the mention
\* commits, or the unique index rejects the task and the transaction rolls back
ReplyInsert(c) ==
    /\ rcall[c].pc = "insert"
    /\ LET m == rcall[c].mention
       IN IF ViolatesReplyIndex(tasks, m)
          THEN /\ rcall' = [rcall EXCEPT ![c].pc = "ignore"]
               /\ UNCHANGED <<tasks, nextTaskId, mentionState, audits>>
          ELSE /\ tasks' = tasks \cup {ReplyTask(nextTaskId, m, rcall[c].now)}
               /\ nextTaskId' = nextTaskId + 1
               /\ audits' = AuditCreate(audits, m)
               /\ mentionState' = [mentionState EXCEPT ![m] = REPLY_ATTEMPT]
               /\ rcall' = [rcall EXCEPT ![c].pc = "upstream", ![c].task = nextTaskId]
    /\ UNCHANGED <<children, upstreamOk, recov, rhist>>
    /\ UNCHANGED <<clockVars, fan, breakerVars, healthVars, ingestVars, updateVars, fetchVars>>

\* processReplyTask, in its transaction: the store writes that follow the result
ProcessCommit(m, id, result) ==
    /\ children' = [children EXCEPT ![m] = IF result = "success" THEN @ + 1 ELSE @]
    /\ mentionState' = [mentionState EXCEPT ![m] =
                          IF result = "success" THEN REPLIED ELSE PROVIDER_ERROR]
    /\ tasks' = FinishTask(tasks, id, result, now)

\* the upstream handles one reply request
Upstream(m, outcome) ==
    /\ upstreamOk' = [upstreamOk EXCEPT ![m] = IF outcome = "success" THEN @ + 1 ELSE @]
    /\ rhist' = [rhist EXCEPT !.allOk = @ /\ outcome = "success"]

\* processReplyTask called by reply: the mention is loaded, the transaction is
\* opened and socialMediaService.reply returns or throws
ReplyUpstream(c, outcome) ==
    /\ rcall[c].pc = "upstream"
    /\ Upstream(rcall[c].mention, outcome)
    /\ rcall' = [rcall EXCEPT ![c].pc = IF outcome = "throw" THEN "ignore" ELSE "commit",
                              ![c].result = outcome]
    /\ UNCHANGED <<tasks, nextTaskId, mentionState, children, audits, recov>>
    /\ UNCHANGED <<clockVars, fan, breakerVars, healthVars, ingestVars, updateVars, fetchVars>>

\* processReplyTask called by reply: its transaction commits and reply returns
ReplyCommit(c) ==
    /\ rcall[c].pc = "commit"
    /\ ProcessCommit(rcall[c].mention, rcall[c].task, rcall[c].result)
    /\ rcall' = [rcall EXCEPT ![c].pc = "done"]
    /\ UNCHANGED <<nextTaskId, audits, upstreamOk, recov, rhist>>
    /\ UNCHANGED <<clockVars, fan, breakerVars, healthVars, ingestVars, updateVars, fetchVars>>

\* reply, catch block: record the attempt as ignored and rethrow
ReplyIgnore(c) ==
    /\ rcall[c].pc = "ignore"
    /\ tasks' = tasks \cup {IgnoredTask(nextTaskId, rcall[c].mention, rcall[c].now)}
    /\ nextTaskId' = nextTaskId + 1
    /\ rcall' = [rcall EXCEPT ![c].pc = "done", ![c].threw = TRUE]
    /\ UNCHANGED <<mentionState, children, audits, upstreamOk, recov, rhist>>
    /\ UNCHANGED <<clockVars, fan, breakerVars, healthVars, ingestVars, updateVars, fetchVars>>

\* a process starts: init selects the recent unfinished reply tasks and hands each
\* to processReplyTask (at most SOCIAL_MEDIA_API_PROMISES_LIMIT at a time, which
\* the tasks of the model never exceed)
RecoveryStart ==
    /\ recov.pc = "down"
    /\ recov' = [pc |-> "up",
                 jobs |-> {[task |-> x.id, mention |-> x.mentionId, pc |-> "upstream",
                            result |-> "none"] : x \in RecentUnfinished(tasks, now)}]
    /\ UNCHANGED <<tasks, nextTaskId, mentionState, children, audits, upstreamOk,
                   rcall, rhist>>
    /\ UNCHANGED <<clockVars, fan, breakerVars, healthVars, ingestVars, updateVars, fetchVars>>

\* processReplyTask called by the recovery: the upstream call returns or throws
\* (a throw rolls the transaction back and is logged by init)
RecoveryUpstream(j, outcome) ==
    /\ j \in recov.jobs
    /\ j.pc = "upstream"
    /\ Upstream(j.mention, outcome)
    /\ recov' = [recov EXCEPT !.jobs = (@ \ {j}) \cup
                    {[j EXCEPT !.pc = IF outcome = "throw" THEN "done" ELSE "commit",
                               !.result = outcome]}]
    /\ UNCHANGED <<tasks, nextTaskId, mentionState, children, audits, rcall>>
    /\ UNCHANGED <<clockVars, fan, breakerVars, healthVars, ingestVars, updateVars, fetchVars>>

\* processReplyTask called by the recovery: its transaction commits
RecoveryCommit(j) ==
    /\ j \in recov.jobs
    /\ j.pc = "commit"
    /\ ProcessCommit(j.mention, j.task, j.result)
    /\ recov' = [recov EXCEPT !.jobs = (@ \ {j}) \cup {[j EXCEPT !.pc = "done"]}]
    /\ UNCHANGED <<nextTaskId, audits, upstreamOk, rcall, rhist>>
    /\ UNCHANGED <<clockVars, fan, breakerVars, healthVars, ingestVars, updateVars, fetchVars>>

InitData ==
    /\ InitClock /\ InitBreakerVars /\ InitReplyVars /\ InitIngestVars
    /\ InitUpdateVars /\ InitFetchVars /\ InitHealthVars /\ InitFanVars
    /\ cbRow = NoRow

NextReply ==
    \/ \E c \in ReplyCalls, m \in Mentions : ReplyStart(c, m)
    \/ \E c \in ReplyCalls : ReplyDeleteStale(c)
    \/ \E c \in ReplyCalls : ReplyInsert(c)
    \/ \E c \in ReplyCalls, outcome \in ReplyOutcomes : ReplyUpstream(c, outcome)
    \/ \E c \in ReplyCalls : ReplyCommit(c)
    \/ \E c \in ReplyCalls : ReplyIgnore(c)
    \/ RecoveryStart
    \/ \E j \in recov.jobs, outcome \in ReplyOutcomes : RecoveryUpstream(j, outcome)
    \/ \E j \in recov.jobs : RecoveryCommit(j)
    \/ Tick(ReplyTicks, REPLY_INTERVAL)

SpecReply == InitData /\ [][NextReply]_vars

----------------------------------------------------------------------------
(* The ingestion: BaseMentionAdapter._createMentions *)

\* commentId of an upstream comment; a comment may come without one
CommentIds == {"c1", "c2", "undefined"}

CommentLists == UNION {[1..n -> CommentIds] : n \in 1..MaxList}

\* _transformCommentsToMentions, then  mention.socialMediaPlatformRef || ''
RefOf(commentId) == IF commentId = "undefined" THEN "" ELSE commentId

RefsIn(rs) == {rs[k] : k \in 1..Len(rs)}

\* an insert without the  on conflict do nothing  clause: the unique index raises
InsertRowRaising(rs, ref) ==
    IF ref \in RefsIn(rs)
    THEN [rows |-> rs, error |-> TRUE]
    ELSE [rows |-> Append(rs, ref), error |-> FALSE]

\* an insert with  on conflict ... do update : the row that holds the ref is
\* rewritten (its old version goes, the new one is the latest row)
InsertRowReplacing(rs, ref) ==
    [rows |-> Append(SelectSeq(rs, LAMBDA x : x # ref), ref), error |-> FALSE]

\* one row reaches mentions_socialmediaplatformref_unq:  on conflict do nothing
InsertRow(rs, ref) ==
    IF ref \in RefsIn(rs)
    THEN [rows |-> rs, error |-> FALSE]
    ELSE [rows |-> Append(rs, ref), error |-> FALSE]

\* the insert ... select of _createMentions: the rows of list, in order, that the
\* not exists test lets through (seen: the refs of the statement's snapshot)
RECURSIVE InsertSelected(_, _, _)
InsertSelected(rs, list, seen) ==
    IF list = <<>> THEN [rows |-> rs, error |-> FALSE]
    ELSE LET ref == RefOf(Head(list))
             r == IF ref \in seen THEN [rows |-> rs, error |-> FALSE]
                  ELSE InsertRow(rs, ref)
             rest == InsertSelected(r.rows, Tail(list), seen)
         IN [rows |-> rest.rows, error |-> r.error \/ rest.error]

\* processFetchTask got the comments of a post and calls _createMentions: the
\* statement starts and takes its snapshot of mentions
IngestSelect(w, list) ==
    /\ ingest[w].pc = "idle"
    /\ ingest[w].rounds < MaxRounds
    /\ ingest' = [ingest EXCEPT ![w] = [pc |-> "select", list |-> list,
                                        seen |-> RefsIn(rows), rounds |-> @.rounds]]
    /\ UNCHANGED <<rows, surfaced>>
    /\ UNCHANGED <<clockVars, fan, breakerVars, healthVars, replyVars, updateVars, fetchVars>>

\* the statement inserts and ends
IngestInsert(w) ==
    /\ ingest[w].pc = "select"
    /\ LET r == InsertSelected(rows, ingest[w].list, ingest[w].seen)
       IN /\ rows' = r.rows
          /\ surfaced' = (surfaced \/ r.error)
    /\ ingest' = [ingest EXCEPT ![w].pc = "idle", ![w].rounds = @ + 1]
    /\ UNCHANGED <<clockVars, fan, breakerVars, healthVars, replyVars, updateVars, fetchVars>>

NextIngest ==
    \/ \E w \in Workers, list \in CommentLists : IngestSelect(w, list)
    \/ \E w \in Workers : IngestInsert(w)

SpecIngest == InitData /\ [][NextIngest]_vars

----------------------------------------------------------------------------
(* Operator updates: MentionDataService.update *)

ASSIGNMENT == "ASSIGNMENT"

\* rows of table users
Users == {1}

\* what an operator may send as patch.userId: nothing, null, 0, the id of a user,
\* an id no user has
PatchUserIds == {Absent, Null, 0, 1, 2}

\* JavaScript truthiness of a userId
Truthy(x) == x \notin {Absent, Null, 0}

\* update: the state field it puts into the patch, given the userId of the patch
\* and the userId of the mention it loaded
PatchState(userId, loadedUserId) ==
    IF Truthy(userId) THEN ASSIGNMENT
    ELSE IF Truthy(loadedUserId) /\ userId = Null THEN "NULL"
    ELSE "absent"

\* mentions_users_fk: the UPDATE is rejected when userId names no user
ViolatesUserFk(userId) ==
    userId # Absent /\ userId # Null /\ userId \notin Users

\* update: Mention.findById returns, and update decides what to do with the patch
UpdateLoad(u, id, userId) ==
    /\ ucall[u].pc = "idle"
    /\ \A v \in UpdateCalls : v < u => ucall[v].pc # "idle"
    /\ IF id \notin Mentions
       THEN ucall' = [ucall EXCEPT ![u] =
                        [IdleUpdate EXCEPT !.pc = "done", !.id = id, !.userId = userId,
                                           !.result = "notfound"]]
       ELSE ucall' = [ucall EXCEPT ![u] =
                        [IdleUpdate EXCEPT
                            !.pc = IF Truthy(userId) THEN "audit" ELSE "apply",
                            !.id = id, !.userId = userId,
                            !.state = PatchState(userId, assignee[id])]]
    /\ UNCHANGED <<assignee, assignAudits>>
    /\ UNCHANGED <<clockVars, fan, breakerVars, healthVars, replyVars, ingestVars, fetchVars>>

\* update: auditDataService.audit, a statement of its own outside any transaction
UpdateAudit(u) ==
    /\ ucall[u].pc = "audit"
    /\ assignAudits' = AuditCreate(assignAudits, ucall[u].id)
    /\ ucall' = [ucall EXCEPT ![u].pc = "apply", ![u].audits = @ + 1]
    /\ UNCHANGED assignee
    /\ UNCHANGED <<clockVars, fan, breakerVars, healthVars, replyVars, ingestVars, fetchVars>>

\* update: mention.update(data) is applied, or rejected by the foreign key
UpdateApply(u) ==
    /\ ucall[u].pc = "apply"
    /\ LET c == ucall[u]
       IN IF ViolatesUserFk(c.userId)
          THEN /\ ucall' = [ucall EXCEPT ![u].pc = "done", ![u].result = "dberror"]
               /\ UNCHANGED <<assignee, mentionState>>
          ELSE /\ ucall' = [ucall EXCEPT ![u].pc = "done", ![u].result = "ok"]
               /\ assignee' = [assignee EXCEPT ![c.id] =
                                 IF c.userId = Absent THEN @ ELSE c.userId]
               /\ mentionState' = [mentionState EXCEPT ![c.id] =
                                     IF c.state = "absent" THEN @ ELSE c.state]
    /\ UNCHANGED <<assignAudits, tasks, nextTaskId, children, audits, upstreamOk,
                   rcall, recov, rhist>>
    /\ UNCHANGED <<clockVars, fan, breakerVars, healthVars, ingestVars, fetchVars>>

NextUpdate ==
    \/ \E u \in UpdateCalls, id \in MentionIds, userId \in PatchUserIds :
          UpdateLoad(u, id, userId)
    \/ \E u \in UpdateCalls : UpdateAudit(u)
    \/ \E u \in UpdateCalls : UpdateApply(u)

SpecUpdate == InitData /\ [][NextUpdate]_vars

----------------------------------------------------------------------------
(* The fetch pipeline: MentionCommentAdapter.fetchAndSyncMentions,             *)
(* processFetchTask, and the fetch recovery of BaseMentionAdapter.init         *)

FETCH_COMMENTS == "FETCH_COMMENTS"

Posts == {"p1", "p2"}

\* what findAllPosts may return: the posts of the platforms that answered, a post
\* possibly more than once; the empty list when every platform failed
PostLists == UNION {[1..n -> Posts] : n \in 0..MaxPosts}

PostsIn(ps) == {ps[k] : k \in 1..Len(ps)}

\* the upstream comment of a post
CommentOf(post) == IF post = "p1" THEN "c1" ELSE "c2"

\* fetchAndSyncMentions: Task.create, data.posts holding the post objects
FetchTask(id, ps, t) ==
    [id |-> id, code |-> FETCH_COMMENTS, createdAt |-> t, startedAt |-> t,
     finishedAt |-> Null, posts |-> ps, form |-> "objects", mentionId |-> "none"]

\* getRecentTasksQuery: the rows its where clause keeps at time t. The exists
\* clause added for a mentionType keeps a row only when data->>'mentionId' names a
\* mention of that type (every mention of Mentions is a COMMENT).
getRecentTasksQuery(ts, type, interval, t, includeUnfinished, mentionType) ==
    {x \in ts :
        /\ x.code = type
        /\ x.createdAt >= t - interval
        /\ includeUnfinished => (x.startedAt >= t - interval /\ x.finishedAt = Null)
        /\ mentionType => x.mentionId \in Mentions}

\* the elements of data.posts as JSON.parse gives them: post objects while the
\* task is unfinished, id strings once processFetchTask has rewritten the field
ParsedPosts(x) == {[kind |-> x.form, id |-> x.posts[k]] : k \in 1..Len(x.posts)}

\* _findFreshlyFetchedPostIds, on the rows its query returned
existingPostIds(recent) == UNION {ParsedPosts(x) : x \in recent}

\* existingPostIds.includes(post.id): a strict comparison with an id string
Includes(existing, postId) == [kind |-> "ids", id |-> postId] \in existing

\* fetchAndSyncMentions: posts.filter(...), from index k on
RECURSIVE postsToFetch(_, _, _)
postsToFetch(posts, k, existing) ==
    IF k > Len(posts) THEN <<>>
    ELSE LET rest == postsToFetch(posts, k + 1, existing)
         IN IF /\ ~Includes(existing, posts[k])
               /\ \A j \in 1..(k - 1) : posts[j] # posts[k]
            THEN <<posts[k]>> \o rest
            ELSE rest

\* a fetch that gives up all comments as soon as one request failed
CommentsAllOrNothing(ps, got) ==
    IF PostsIn(ps) \subseteq got THEN [k \in 1..Len(ps) |-> CommentOf(ps[k])] ELSE <<>>

\* the comments of the posts whose request succeeded (findAllComments returns []
\* for a post whose request failed)
RECURSIVE CommentsFetched(_, _)
CommentsFetched(ps, got) ==
    IF ps = <<>> THEN <<>>
    ELSE IF Head(ps) \in got THEN <<CommentOf(Head(ps))>> \o CommentsFetched(Tail(ps), got)
    ELSE CommentsFetched(Tail(ps), got)

\* a caller (a listMentions call) runs fetchAndSyncMentions: the request of
\* findAllPosts is sent
BeginFetch(w) ==
    /\ fworker[w].pc = "idle"
    /\ fworker' = [fworker EXCEPT ![w].pc = "posts"]

FetchStart(w) ==
    /\ w > 1 => fworker[w - 1].pc # "idle"
    /\ BeginFetch(w)
    /\ UNCHANGED <<ftasks, lcall, frecov>>
    /\ UNCHANGED <<clockVars, fan, breakerVars, healthVars, replyVars, ingestVars, updateVars>>

\* findAllPosts returns
FetchPosts(w, list) ==
    /\ fworker[w].pc = "posts"
    /\ fworker' = [fworker EXCEPT ![w].pc = "query", ![w].posts = list]
    /\ UNCHANGED <<ftasks, lcall, frecov>>
    /\ UNCHANGED <<clockVars, fan, breakerVars, healthVars, replyVars, ingestVars, updateVars>>

\* the query of _findFreshlyFetchedPostIds runs; the posts are filtered, and without
\* a post left fetchAndSyncMentions returns
FetchQuery(w) ==
    /\ fworker[w].pc = "query"
    /\ LET recent == getRecentTasksQuery(ftasks, FETCH_COMMENTS, FETCH_INTERVAL, now,
                                         FALSE, FALSE)
           tf == postsToFetch(fworker[w].posts, 1, existingPostIds(recent))
       IN fworker' = [fworker EXCEPT ![w].pc = IF tf = <<>> THEN "done" ELSE "create",
                                     ![w].toFetch = tf,
                                     ![w].seen = {x.id : x \in recent}]
    /\ UNCHANGED <<ftasks, lcall, frecov>>
    /\ UNCHANGED <<clockVars, fan, breakerVars, healthVars, replyVars, ingestVars, updateVars>>

\* Task.create commits
FetchCreate(w) ==
    /\ fworker[w].pc = "create"
    /\ ftasks' = ftasks \cup {FetchTask(nextTaskId, fworker[w].toFetch, now)}
    /\ nextTaskId' = nextTaskId + 1
    /\ fworker' = [fworker EXCEPT ![w].pc = "comments", ![w].task = nextTaskId]
    /\ UNCHANGED <<lcall, frecov>>
    /\ UNCHANGED <<tasks, mentionState, children, audits, upstreamOk, rcall, recov, rhist>>
    /\ UNCHANGED <<clockVars, fan, breakerVars, healthVars, ingestVars, updateVars>>

\* processFetchTask: the comments of the posts have been fetched and inserted; an
\* error of _createMentions leaves processPromises (breakOnError) and the function
FetchComments(w, got) ==
    /\ fworker[w].pc = "comments"
    /\ LET r == InsertSelected(rows, CommentsFetched(fworker[w].toFetch, got), RefsIn(rows))
       IN /\ rows' = r.rows
          /\ surfaced' = (surfaced \/ r.error)
          /\ fworker' = [fworker EXCEPT ![w].pc = IF r.error THEN "failed" ELSE "finish",
                                        ![w].got = got]
    /\ UNCHANGED <<ingest, ftasks, lcall, frecov>>
    /\ UNCHANGED <<clockVars, fan, breakerVars, healthVars, replyVars, updateVars>>

\* processFetchTask: Task.update sets finishedAt and rewrites data.posts to the ids
FetchFinish(w) ==
    /\ fworker[w].pc = "finish"
    /\ ftasks' = {IF x.id = fworker[w].task
                  THEN [x EXCEPT !.finishedAt = now, !.form = "ids"]
                  ELSE x : x \in ftasks}
    /\ fworker' = [fworker EXCEPT ![w].pc = "done"]
    /\ UNCHANGED <<lcall, frecov>>
    /\ UNCHANGED <<clockVars, fan, breakerVars, healthVars, replyVars, ingestVars, updateVars>>

\* the process of the caller dies while its task is unfinished
FetchCrash(w) ==
    /\ fworker[w].pc \in {"comments", "finish"}
    /\ fworker' = [fworker EXCEPT ![w].pc = "crashed"]
    /\ UNCHANGED <<ftasks, lcall, frecov>>
    /\ UNCHANGED <<clockVars, fan, breakerVars, healthVars, replyVars, ingestVars, updateVars>>

\* a process starts: the query of init's second _processAllTasks selects the fetch
\* tasks to hand to processFetchTask
FetchRecoveryStart ==
    /\ frecov.pc = "down"
    /\ frecov' = [pc |-> "up",
                  jobs |-> {x.id : x \in getRecentTasksQuery(ftasks, FETCH_COMMENTS,
                                                            FETCH_INTERVAL, now, TRUE, TRUE)}]
    /\ UNCHANGED <<ftasks, fworker, lcall>>
    /\ UNCHANGED <<clockVars, fan, breakerVars, healthVars, replyVars, ingestVars, updateVars>>

NextFetch ==
    \/ \E w \in FetchWorkers : FetchStart(w)
    \/ \E w \in FetchWorkers, list \in PostLists : FetchPosts(w, list)
    \/ \E w \in FetchWorkers : FetchQuery(w)
    \/ \E w \in FetchWorkers : FetchCreate(w)
    \/ \E w \in FetchWorkers : \E got \in SUBSET PostsIn(fworker[w].toFetch) :
          FetchComments(w, got)
    \/ \E w \in FetchWorkers : FetchFinish(w)
    \/ \E w \in FetchWorkers : FetchCrash(w)
    \/ FetchRecoveryStart
    \/ Tick(FetchTicks, REPLY_INTERVAL)

SpecFetch == InitData /\ [][NextFetch]_vars

----------------------------------------------------------------------------
(* listMentions: MentionDataService.findAll, whose background fetch is caller 1 *)

\* findAll starts fetchAndSyncMentions of the adapter and the waitMs timer, and
\* awaits Promise.race
ListStart ==
    /\ lcall.pc = "idle"
    /\ BeginFetch(1)
    /\ lcall' = [lcall EXCEPT !.pc = "racing"]
    /\ UNCHANGED <<ftasks, frecov>>
    /\ UNCHANGED <<clockVars, fan, breakerVars, healthVars, replyVars, ingestVars, updateVars>>

\* a timer branch that reports the data as fresh
TimerMetaFresh(l) == [l EXCEPT !.isSyncing = FALSE]

\* sleep(waitMs).then(() => ({ isSyncing: true }))
TimerMeta(l) == [l EXCEPT !.isSyncing = TRUE]

\* the timer fires before the fetch has settled: the timer branch wins the race
ListTimer ==
    /\ lcall.pc = "racing"
    /\ fworker[1].pc # "done"
    /\ lcall' = [TimerMeta(lcall) EXCEPT !.pc = "select"]
    /\ UNCHANGED <<ftasks, fworker, frecov>>
    /\ UNCHANGED <<clockVars, fan, breakerVars, healthVars, replyVars, ingestVars, updateVars>>

\* the fetch settled first:  adapter.isSyncing  is not a function of the adapter, the
\* catch turns the TypeError into {error}, and meta has isSyncing false and one error
ListSettle ==
    /\ lcall.pc = "racing"
    /\ fworker[1].pc = "done"
    /\ lcall' = [lcall EXCEPT !.pc = "select", !.isSyncing = FALSE, !.errors = 1]
    /\ UNCHANGED <<ftasks, fworker, frecov>>
    /\ UNCHANGED <<clockVars, fan, breakerVars, healthVars, replyVars, ingestVars, updateVars>>

\* Mention.findAll returns and findAll returns {result, meta}
ListSelect ==
    /\ lcall.pc = "select"
    /\ lcall' = [lcall EXCEPT !.pc = "done", !.result = rows]
    /\ UNCHANGED <<ftasks, fworker, frecov>>
    /\ UNCHANGED <<clockVars, fan, breakerVars, healthVars, replyVars, ingestVars, updateVars>>

\* the steps of the background fetch of the listMentions call
ListFetchStep ==
    \/ \E list \in PostLists : FetchPosts(1, list)
    \/ FetchQuery(1)
    \/ FetchCreate(1)
    \/ \E got \in SUBSET PostsIn(fworker[1].toFetch) : FetchComments(1, got)
    \/ FetchFinish(1)

\* another caller's fetch, which adds mentions while the call is in progress
OtherFetchStep ==
    \/ BeginFetch(2) /\ UNCHANGED <<ftasks, lcall, frecov>>
                     /\ UNCHANGED <<clockVars, fan, breakerVars, healthVars, replyVars, ingestVars, updateVars>>
    \/ \E list \in PostLists : FetchPosts(2, list)
    \/ FetchQuery(2)
    \/ FetchCreate(2)
    \/ \E got \in SUBSET PostsIn(fworker[2].toFetch) : FetchComments(2, got)
    \/ FetchFinish(2)

NextList ==
    \/ ListStart
    \/ ListTimer
    \/ ListSettle
    \/ ListSelect
    \/ ListFetchStep
    \/ OtherFetchStep

SpecList == InitData /\ [][NextList]_vars

\* the event loop runs a timer that is due and a promise reaction that is queued,
\* and the store answers a query; nothing is assumed about the upstream
SpecListFair ==
    SpecList /\ WF_vars(ListTimer \/ ListSettle) /\ WF_vars(ListSelect)

\* one reply, the startup recovery and one listMentions call
NextEngine ==
    \/ \E m \in Mentions : ReplyStart(1, m)
    \/ ReplyDeleteStale(1)
    \/ ReplyInsert(1)
    \/ \E outcome \in ReplyOutcomes : ReplyUpstream(1, outcome)
    \/ ReplyCommit(1)
    \/ ReplyIgnore(1)
    \/ RecoveryStart
    \/ \E j \in recov.jobs, outcome \in ReplyOutcomes : RecoveryUpstream(j, outcome)
    \/ \E j \in recov.jobs : RecoveryCommit(j)
    \/ ListStart
    \/ ListTimer
    \/ ListSettle
    \/ ListSelect
    \/ ListFetchStep
    \/ Tick(ReplyTicks, REPLY_INTERVAL)

SpecEngine == InitData /\ [][NextEngine]_vars

\* every operation that reaches table audits or could: a reply and the reply
\* recovery, the operator updates, a fetch and the fetch recovery
NextTrail ==
    \/ \E m \in Mentions : ReplyStart(1, m)
    \/ ReplyDeleteStale(1)
    \/ ReplyInsert(1)
    \/ \E outcome \in ReplyOutcomes : ReplyUpstream(1, outcome)
    \/ ReplyCommit(1)
    \/ ReplyIgnore(1)
    \/ RecoveryStart
    \/ \E j \in recov.jobs, outcome \in ReplyOutcomes : RecoveryUpstream(j, outcome)
    \/ \E j \in recov.jobs : RecoveryCommit(j)
    \/ NextUpdate
    \/ FetchStart(1)
    \/ FetchPosts(1, <<"p1">>)
    \/ FetchQuery(1)
    \/ FetchCreate(1)
    \/ \E got \in SUBSET PostsIn(fworker[1].toFetch) : FetchComments(1, got)
    \/ FetchFinish(1)

SpecTrail == InitData /\ [][NextTrail]_vars

----------------------------------------------------------------------------
(* The health endpoint: SocialMediaService.findHealth, StatusController.findHealth *)

\* the circuit key of the breaker whose row is cbRow
ModelledKey == "default"

\* state_data values a breaker writes: after a success, after a failure below the
\* threshold, after opening, after admitting a probe
WrittenStates ==
    {[state |-> CLOSED, failures |-> 0, lastFailureTime |-> Null, nextAttemptTime |-> Null],
     [state |-> CLOSED, failures |-> 1, lastFailureTime |-> StartTime,
      nextAttemptTime |-> Null],
     [state |-> OPEN, failures |-> maxFailures, lastFailureTime |-> StartTime,
      nextAttemptTime |-> StartTime + resetTimeout],
     [state |-> HALF_OPEN, failures |-> maxFailures, lastFailureTime |-> StartTime,
      nextAttemptTime |-> StartTime + resetTimeout]}

\* SELECT circuit_name, state_data FROM circuit_breaker_states
CircuitRows ==
    (IF cbRow.exists
     THEN {[circuit_name |-> ModelledKey, state_data |-> cbRow.data]} ELSE {})
    \cup {[circuit_name |-> k, state_data |-> otherRows[k].data] :
             k \in {j \in OtherKeys : otherRows[j].exists}}

\* findHealth: one entry per row
CircuitEntry(row) ==
    [platform |-> row.circuit_name,
     state |-> row.state_data.state,
     failures |-> row.state_data.failures,
     lastFailureTime |-> row.state_data.lastFailureTime,
     nextAttemptTime |-> row.state_data.nextAttemptTime,
     healthy |-> row.state_data.state = CLOSED]

\* a findHealth that is content with one healthy circuit
findHealthAnyClosed(states) ==
    LET health == {CircuitEntry(row) : row \in states}
    IN [status |-> IF \E h \in health : h.healthy THEN "healthy" ELSE "degraded",
        circuits |-> health]

\* findHealth, on the rows its query returned (the timestamp is left out)
findHealth(states) ==
    LET health == {CircuitEntry(row) : row \in states}
        allHealthy == \A h \in health : h.healthy
    IN [status |-> IF allHealthy THEN "healthy" ELSE "degraded", circuits |-> health]

\* StatusController.findHealth: the status code of a health object
statusCode(health) == IF health.status = "healthy" THEN 200 ELSE 503

\* a saveStateFn upsert of some breaker of some process lands
RowWritten(k, data) ==
    /\ IF k = ModelledKey
       THEN cbRow' = RowOf(data) /\ UNCHANGED otherRows
       ELSE otherRows' = [otherRows EXCEPT ![k] = RowOf(data)] /\ UNCHANGED cbRow
    /\ UNCHANGED <<localState, stateInitialized, loadBuf, pending, call, callsMade,
                   visited, hist, hcall>>
    /\ UNCHANGED <<clockVars, fan, replyVars, ingestVars, updateVars, fetchVars>>

\* GET /v1/status/health arrives: the controller calls findHealth, which sends its
\* query
HealthStart ==
    /\ hcall.pc = "idle"
    /\ hcall' = [hcall EXCEPT !.pc = "query"]
    /\ UNCHANGED <<clockVars, fan, breakerVars, otherRows, replyVars, ingestVars,
                   updateVars, fetchVars>>

\* the query returns and findHealth builds its result, or the query fails and the
\* catch block of the controller answers 500
HealthQuery(ok) ==
    /\ hcall.pc = "query"
    /\ IF ok
       THEN hcall' = [hcall EXCEPT !.pc = "built", !.rows = CircuitRows,
                                   !.body = findHealth(CircuitRows)]
       ELSE hcall' = [hcall EXCEPT !.pc = "done", !.code = 500,
                                   !.body = [status |-> "error", circuits |-> {}]]
    /\ UNCHANGED <<clockVars, fan, breakerVars, otherRows, replyVars, ingestVars,
                   updateVars, fetchVars>>

\* the controller sends the response
HealthRespond ==
    /\ hcall.pc = "built"
    /\ hcall' = [hcall EXCEPT !.pc = "done", !.code = statusCode(hcall.body)]
    /\ UNCHANGED <<clockVars, fan, breakerVars, otherRows, replyVars, ingestVars,
                   updateVars, fetchVars>>

NextHealth ==
    \/ \E k \in OtherKeys \cup {ModelledKey}, data \in WrittenStates : RowWritten(k, data)
    \/ HealthStart
    \/ \E ok \in BOOLEAN : HealthQuery(ok)
    \/ HealthRespond

SpecHealth == InitData /\ [][NextHealth]_vars

----------------------------------------------------------------------------
(* The fan-out helper: processPromises and handlePromise *)

\* a batch that is awaited only when it holds more promises than the limit
BatchFullLate(len, limit) == len > limit

\* handlePromise: if (promises.length >= promisesLimit)
BatchFull(len, limit) == len >= limit

\* a handleError that never rethrows
PropagatesNever(b) == FALSE

\* handleError: rethrows when breakOnError, calls onError(err) otherwise
Propagates(b) == b

\* the values Promise.all gives for the promises of the array: the result of the
\* operation, or undefined for a promise whose .catch handled the failure
Values(f) == [k \in 1..Len(f.promises) |->
                 IF f.ops[f.promises[k]] = "ok" THEN f.promises[k] ELSE 0]

\* Promise.all(promises) rejects as soon as one of its promises rejects; with
\* breakOnError false every promise carries .catch(onError) and none rejects
AllRejects(f) ==
    f.breakOnError /\ \E k \in 1..Len(f.promises) : f.ops[f.promises[k]] = "failed"

\* Promise.all(promises) fulfils once every promise of the array has
AllFulfils(f) ==
    ~AllRejects(f) /\ \A k \in 1..Len(f.promises) : f.ops[f.promises[k]] # "running"

\* a caller invokes processPromises (delay 0, an onError that returns)
FanStart(limit, n, b) ==
    /\ fan.pc = "idle"
    /\ fan' = [fan EXCEPT !.pc = "loop", !.limit = limit, !.n = n, !.breakOnError = b]
    /\ UNCHANGED <<clockVars, breakerVars, healthVars, replyVars, ingestVars, updateVars,
                   fetchVars>>

\* one iteration of the for loop: promiseFunc is called for the next entity and
\* handlePromise pushes its promise, then awaits the batch when it is full
FanSubmit ==
    /\ fan.pc = "loop"
    /\ fan.index < fan.n
    /\ LET i == fan.index + 1
       IN fan' = [fan EXCEPT !.index = i,
                             !.ops[i] = "running",
                             !.promises = Append(@, i),
                             !.pc = IF BatchFull(Len(fan.promises) + 1, fan.limit)
                                    THEN "await" ELSE "loop"]
    /\ UNCHANGED <<clockVars, breakerVars, healthVars, replyVars, ingestVars, updateVars,
                   fetchVars>>

\* the loop has ended: the remaining promises are awaited, or data is returned
FanLoopEnd ==
    /\ fan.pc = "loop"
    /\ fan.index = fan.n
    /\ fan' = [fan EXCEPT !.pc = IF Len(fan.promises) > 0 THEN "last" ELSE "resolved"]
    /\ UNCHANGED <<clockVars, breakerVars, healthVars, replyVars, ingestVars, updateVars,
                   fetchVars>>

\* the operation of entity i settles; with breakOnError false the .catch of its
\* promise passes a failure to onError
OpSettle(i, ok) ==
    /\ fan.ops[i] = "running"
    /\ fan' = [fan EXCEPT !.ops[i] = IF ok THEN "ok" ELSE "failed",
                          !.onError[i] = IF ok \/ fan.breakOnError THEN @ ELSE @ + 1,
                          !.failedFirst = IF ok \/ @ # 0 THEN @ ELSE i]
    /\ UNCHANGED <<clockVars, breakerVars, healthVars, replyVars, ingestVars, updateVars,
                   fetchVars>>

\* the await of Promise.all(promises) ends. Fulfilled: the values are pushed to
\* data and, in handlePromise, the array is emptied. Rejected: handleError gets the
\* error; when it does not rethrow, it calls onError and the traversal goes on
\* with the array as it is
FanBatchSettle ==
    /\ fan.pc \in {"await", "last"}
    /\ AllRejects(fan) \/ AllFulfils(fan)
    /\ LET next == IF fan.pc = "await" THEN "loop" ELSE "resolved"
       IN fan' = IF AllFulfils(fan)
                 THEN [fan EXCEPT !.data = @ \o Values(fan),
                                  !.promises = IF fan.pc = "await" THEN <<>> ELSE @,
                                  !.pc = next]
                 ELSE IF Propagates(fan.breakOnError)
                      THEN [fan EXCEPT !.pc = "rejected", !.error = fan.failedFirst]
                      ELSE [fan EXCEPT !.pc = next,
                                       !.onError[fan.failedFirst] = @ + 1]
    /\ UNCHANGED <<clockVars, breakerVars, healthVars, replyVars, ingestVars, updateVars,
                   fetchVars>>

NextFan ==
    \/ \E limit \in 1..MaxLimit, n \in 0..MaxEntities, b \in BOOLEAN : FanStart(limit, n, b)
    \/ FanSubmit
    \/ FanLoopEnd
    \/ \E i \in Entities, ok \in BOOLEAN : OpSettle(i, ok)
    \/ FanBatchSettle

SpecFan == InitData /\ [][NextFan]_vars

----------------------------------------------------------------------------
(* Properties of the breaker and of the composed handler *)

FullCycle == <<CLOSED, OPEN, HALF_OPEN, CLOSED>>

RowShows(st, f) == cbRow.exists /\ cbRow.data.state = st /\ cbRow.data.failures = f

\* C5: a breaker that started CLOSED with failures = 0 and saw maxFailures failing
\* executes followed by one succeeding execute went through CLOSED, OPEN, HALF_OPEN,
\* CLOSED in that order, and once none of its writes is in flight any more the
\* stored state_data shows CLOSED with failures = 0.
C5_CycleAndPersistedFinalState ==
    hist["A"].scenario = maxFailures + 1 =>
        /\ visited["A"] = FullCycle
        /\ (pending["A"] = <<>> => RowShows(CLOSED, 0))

\* the cycle was driven to its end, every write has landed, and the row is stale
C5_StaleRowAfterCycle ==
    /\ hist["A"].scenario = maxFailures + 1
    /\ visited["A"] = FullCycle
    /\ pending["A"] = <<>>
    /\ ~RowShows(CLOSED, 0)

\* C6: an execute called while the breaker is OPEN and now < nextAttemptTime is
\* rejected: fn is not invoked, and state, failures and nextAttemptTime (the whole
\* local state) and the writes in flight stay as they are.
C6_OpenRejectsWithoutFn ==
    [][(/\ callsMade' = callsMade + 1
        /\ stateInitialized["A"]
        /\ localState["A"].state = OPEN
        /\ now < localState["A"].nextAttemptTime)
       => (/\ call'["A"][1].pc = "idle"
           /\ hist'["A"].lastExecute = "rejected"
           /\ localState'["A"] = localState["A"]
           /\ pending'["A"] = pending["A"])]_vars

\* the breaker opened on its own failures and then rejected a call
C6_Rejected ==
    /\ ~loadBuf["A"].row.exists
    /\ visited["A"] = <<CLOSED, OPEN>>
    /\ localState["A"].state = OPEN
    /\ now < localState["A"].nextAttemptTime
    /\ hist["A"].lastFn = "opened"
    /\ hist["A"].lastExecute = "rejected"
    /\ call["A"][1].pc = "idle"

FnFailsInStep ==
    /\ call["A"][1].pc = "fn"
    /\ call'["A"][1].pc # "fn"
    /\ hist'["A"].lastFn \in {"failed", "opened"}

\* C7: every failing HTTP attempt adds exactly one to the failure counter; from
\* CLOSED with failures = 0, with retryable failures only, the breaker is CLOSED
\* with failures = k after k < maxFailures attempts, it has opened after attempt
\* maxFailures, the retry loop does not sleep after the opening attempt, and the
\* next logical call made while it is OPEN and before nextAttemptTime is rejected
\* without an HTTP attempt.
C7_OneFailurePerAttempt ==
    [][/\ FnFailsInStep => localState'["A"].failures = localState["A"].failures + 1
       /\ (hist'["A"].retryableOnly /\ hist'["A"].scenario < maxFailures) =>
              /\ visited'["A"] = <<CLOSED>>
              /\ localState'["A"].failures = hist'["A"].scenario
       /\ (hist'["A"].retryableOnly /\ hist'["A"].scenario = maxFailures) =>
              /\ localState'["A"].failures = maxFailures
              /\ Len(visited'["A"]) >= 2
              /\ visited'["A"][1] = CLOSED /\ visited'["A"][2] = OPEN
              /\ call'["A"][1].pc # "sleep"
              /\ call'["A"][1].pc = "fn" => localState'["A"].state = HALF_OPEN
       /\ (/\ hist["A"].retryableOnly /\ hist["A"].scenario = maxFailures
           /\ localState["A"].state = OPEN
           /\ now < localState["A"].nextAttemptTime
           /\ callsMade' = callsMade + 1)
          => (call'["A"][1].pc = "idle" /\ hist'["A"].lastExecute = "rejected")]_vars

\* maxFailures retryable failures over two logical calls opened the breaker, and the
\* third logical call was rejected
C7_OpenedAfterMaxFailures ==
    /\ hist["A"].retryableOnly
    /\ hist["A"].scenario = maxFailures
    /\ localState["A"].state = OPEN
    /\ localState["A"].failures = maxFailures
    /\ callsMade = 3
    /\ hist["A"].lastExecute = "rejected"
    /\ call["A"][1].pc = "idle"

\* C8: when the breaker is not CLOSED at the time an attempt fails (fn failed, or
\* the OPEN circuit rejected the attempt), the retry engine neither sleeps nor
\* attempts again: the logical call ends with that attempt.
C8_NoRetryUnlessClosed ==
    [][\A i \in Instances :
          (call'[i][1] # call[i][1] /\ call'[i][1].pc \notin {"fn", "init"}
           /\ localState'[i].state # CLOSED)
          => call'[i][1].pc = "idle"]_vars

\* the attempt that opened the breaker was attempt 0 of the second logical call,
\* with maxRetries retries still allowed, and the call ended there
C8_StoppedAtOpening ==
    /\ hist["A"].retryableOnly
    /\ hist["A"].scenario = maxFailures
    /\ hist["A"].lastFn = "opened"
    /\ hist["A"].lastExecute = "invoked"
    /\ callsMade = 2
    /\ localState["A"].state = OPEN
    /\ call["A"][1].pc = "idle"

\* a's breaker opened on a failure of its own, and its write has landed and is what
\* the store holds
OpenAndLanded(a) ==
    /\ localState[a].state = OPEN
    /\ hist[a].lastFn = "opened"
    /\ pending[a] = <<>>
    /\ cbRow = RowOf(Snapshot(localState[a]))
    /\ now < localState[a].nextAttemptTime

\* C9: once A is OPEN and its write has landed, an execute that another instance B
\* starts before nextAttemptTime does not invoke fn, whether or not B has used
\* the key before.
C9_SharedKeyConverges ==
    [][\A a \in Instances, b \in Instances :
          (/\ a # b /\ OpenAndLanded(a)
           /\ ~loadBuf[b].failed
           /\ call[b][1].pc \in {"idle", "sleep"})
          => call'[b][1].pc # "fn"]_vars

\* C10: the first execute of a fresh instance works on the loaded state: a stored
\* OPEN state whose nextAttemptTime is in the future rejects it without invoking
\* fn; without a row, or when the load fails, the breaker is CLOSED with
\* failures = 0 and null timestamps, and fn is invoked.
C10_FirstExecuteUsesStoredState ==
    [][(loadBuf["A"].st = "read" /\ loadBuf'["A"].st = "done")
       => LET b == loadBuf["A"]
          IN /\ (/\ ~b.failed /\ b.row.exists
                 /\ b.row.data.state = OPEN
                 /\ now < b.row.data.nextAttemptTime)
                => (/\ call'["A"][1].pc = "idle"
                    /\ hist'["A"].lastExecute = "rejected"
                    /\ localState'["A"] = b.row.data)
             /\ (b.failed \/ ~b.row.exists)
                => (/\ localState'["A"] = InitialLocalState
                    /\ call'["A"][1].pc = "fn")]_vars

\* the only execute so far loaded an OPEN row and was rejected
C10_ResumedOpen ==
    /\ loadBuf["A"].st = "done"
    /\ loadBuf["A"].row.exists
    /\ loadBuf["A"].row.data.state = OPEN
    /\ callsMade = 1
    /\ hist["A"].lastExecute = "rejected"
    /\ hist["A"].lastFn = "none"
    /\ call["A"][1].pc = "idle"

\* the step in which a failure of fn opens the breaker (from CLOSED on reaching
\* maxFailures, or from HALF_OPEN on a failed probe)
OpensInStep ==
    /\ FnFailsInStep
    /\ localState["A"].state # OPEN
    /\ localState'["A"].state = OPEN

\* C11: whenever a failure of fn moves the breaker to OPEN, the nextAttemptTime it
\* records is later than the clock at that moment, however long fn took.
C11_NextAttemptInFuture ==
    [][OpensInStep => localState'["A"].nextAttemptTime > now]_vars

\* the same for calls of fn that took less than resetTimeout
C11_NextAttemptInFutureShortFn ==
    [][(OpensInStep /\ now - call["A"][1].now < resetTimeout)
       => localState'["A"].nextAttemptTime > now]_vars

\* the step in which execute moves the breaker to CLOSED from another state (the
\* landing of initializeState, which replaces localState as a whole, is not one)
ClosesInStep ==
    /\ localState["A"].state # CLOSED
    /\ localState'["A"].state = CLOSED
    /\ loadBuf' = loadBuf

ClosedWrite ==
    [state |-> CLOSED, failures |-> 0, lastFailureTime |-> Null, nextAttemptTime |-> Null]

InFn == {s \in Slots : call["A"][s].pc = "fn"}

\* C12: whenever execute moves the breaker to CLOSED from another state, it issues
\* exactly one write, and that write carries state = CLOSED, failures = 0 and null
\* lastFailureTime and nextAttemptTime, also when other calls of execute overlap.
C12_ClosingWriteIsReset ==
    [][ClosesInStep => pending'["A"] = Append(pending["A"], ClosedWrite)]_vars

\* a probe closed the HALF_OPEN breaker while another call was awaiting fn, and the
\* write of that transition is in flight
C12_ClosedWhileOverlapping ==
    /\ localState["A"].state = CLOSED
    /\ Len(visited["A"]) >= 2
    /\ visited["A"][Len(visited["A"]) - 1] = HALF_OPEN
    /\ pending["A"] = <<ClosedWrite>>
    /\ InFn # {}

\* the calls awaiting an fn that execute invoked while the state was HALF_OPEN
ProbesInFlight == {s \in InFn : call["A"][s].entered = HALF_OPEN}

\* C13 as written: while the breaker is HALF_OPEN one probe is permitted: at most
\* one invocation of fn made in HALF_OPEN is in flight.
C13_SingleProbe ==
    Cardinality(ProbesInFlight) <= 1

\* two overlapping calls were both let through to fn in HALF_OPEN
C13_TwoProbes ==
    /\ localState["A"].state = HALF_OPEN
    /\ ProbesInFlight = Slots
    /\ now >= localState["A"].nextAttemptTime

----------------------------------------------------------------------------
(* Properties of the reply outbox *)

ReplyTasksOf(ts, m) == {x \in ts : x.code = REPLY_MENTION /\ x.mentionId = m}

IgnoredTasksOf(ts, m) == {x \in ts : x.code = REPLY_MENTION_IGNORED /\ x.mentionId = m}

CallsFor(m) == {c \in ReplyCalls : rcall[c].pc # "idle" /\ rcall[c].mention = m}

AllEnded(m) == \A c \in CallsFor(m) : rcall[c].pc = "done"

\* what the replies to mention m leave behind when one attempt won
OneWinner(m) ==
    /\ Cardinality(ReplyTasksOf(tasks, m)) = 1
    /\ \A x \in ReplyTasksOf(tasks, m) : x.finishedAt # Null
    /\ mentionState[m] = REPLIED
    /\ Cardinality(IgnoredTasksOf(tasks, m)) = Cardinality(CallsFor(m)) - 1
    /\ \A x \in IgnoredTasksOf(tasks, m) : x.finishedAt = x.startedAt

\* C1 as written: after N >= 2 replies to a mention have ended, the upstream having
\* accepted every reply it was sent, one REPLY_MENTION task exists and is finished,
\* the mention is REPLIED and the other N - 1 attempts are REPLY_MENTION_IGNORED
\* tasks with finishedAt = startedAt.
C1_OneWinnerOthersIgnored ==
    \A m \in Mentions :
        (Cardinality(CallsFor(m)) >= 2 /\ AllEnded(m) /\ rhist.allOk) => OneWinner(m)

\* two overlapping replies ended, the upstream accepted a reply from each of them and
\* neither is recorded as ignored
C1_TwoWinners ==
    /\ Cardinality(CallsFor("m1")) = 2
    /\ AllEnded("m1")
    /\ rhist.allOk /\ rhist.overlapped /\ rhist.staleDeleted
    /\ upstreamOk["m1"] = 2
    /\ IgnoredTasksOf(tasks, "m1") = {}
    /\ recov.pc = "down"

\* C2 as written: whatever the interleaving of the replies and of the processes that
\* serve them, the upstream accepts at most one reply per mention.
C2_AtMostOneUpstreamReply ==
    \A m \in Mentions : upstreamOk[m] <= 1

\* one reply call and the recovery pass of a starting process both had their reply
\* accepted
C2_RepliedTwice ==
    /\ Cardinality(CallsFor("m1")) = 1
    /\ recov.pc = "up"
    /\ ticks = 0
    /\ upstreamOk["m1"] = 2

\* C3: the committed tasks never hold two REPLY_MENTION rows of one mention, and
\* the insert of reply that would add a second one fails: the transaction adds
\* nothing and reply goes to its catch block.
C3_OneReplyTaskPerMention ==
    [][/\ \A m \in Mentions : Cardinality(ReplyTasksOf(tasks', m)) <= 1
       /\ \A c \in ReplyCalls :
             (/\ rcall[c].pc = "insert" /\ rcall'[c].pc # "insert"
              /\ ReplyTasksOf(tasks, rcall[c].mention) # {})
             => (tasks' = tasks /\ rcall'[c].pc = "ignore")]_vars

\* an insert was rejected while a REPLY_MENTION task of the mention existed
C3_SecondInsertRejected ==
    \E c \in ReplyCalls :
        /\ rcall[c].pc = "ignore"
        /\ rcall[c].result = "none"
        /\ Cardinality(ReplyTasksOf(tasks, rcall[c].mention)) = 1

----------------------------------------------------------------------------
(* Properties of the ingestion *)

NoSharedRef == \A j, k \in 1..Len(rows) : j # k => rows[j] # rows[k]

Ingested(w) == ingest[w].pc = "idle" /\ ingest[w].rounds > 0

\* C4: however often and however concurrently comment lists are ingested, no two
\* mentions rows share a socialMediaPlatformRef, every ref of an ingested list has
\* its row, and no duplicate-key error reaches the caller.
C4_IngestionIdempotent ==
    /\ NoSharedRef
    /\ ~surfaced
    /\ \A w \in Workers :
          Ingested(w) =>
              \A k \in 1..Len(ingest[w].list) : RefOf(ingest[w].list[k]) \in RefsIn(rows)

\* two workers ingested the same list of two comments at the same time, neither
\* statement having seen a row of the other
C4_SameListTwiceConcurrently ==
    /\ Ingested(1) /\ Ingested(2)
    /\ ingest[1].list = ingest[2].list
    /\ ingest[1].list = <<"c1", "c2">>
    /\ ingest[1].seen = {} /\ ingest[2].seen = {}
    /\ Len(rows) = 2

----------------------------------------------------------------------------
(* Properties of the operator updates *)

\* an id a row of users can have
IsId(x) == x >= 1

UpdateEndsInStep(u) == ucall[u].pc # "done" /\ ucall'[u].pc = "done"

\* C14 as written: an update of an existing mention whose patch.userId is a non-null
\* id writes exactly one ASSIGNMENT audit row for the mention and leaves its state
\* ASSIGNMENT; an update of a missing mention fails with not-found and writes no
\* audit row.
C14_OneAuditAndAssigned ==
    [][\A u \in UpdateCalls :
          UpdateEndsInStep(u) =>
              LET c == ucall'[u]
              IN /\ (c.id \in Mentions /\ IsId(c.userId))
                    => (c.audits = 1 /\ mentionState'[c.id] = ASSIGNMENT)
                 /\ (c.id \notin Mentions)
                    => (c.result = "notfound" /\ c.audits = 0
                        /\ assignAudits'[c.id] = 0)]_vars

\* the same for the ids of existing users
C14_ExistingUserAssigned ==
    [][\A u \in UpdateCalls :
          UpdateEndsInStep(u) =>
              LET c == ucall'[u]
              IN /\ (c.id \in Mentions /\ c.userId \in Users)
                    => (c.audits = 1 /\ c.result = "ok"
                        /\ mentionState'[c.id] = ASSIGNMENT /\ assignee'[c.id] = c.userId)
                 /\ (c.id \notin Mentions)
                    => (c.result = "notfound" /\ c.audits = 0
                        /\ assignAudits'[c.id] = 0)]_vars

\* an update wrote its ASSIGNMENT audit row and then failed: the mention is neither
\* assigned nor in state ASSIGNMENT
C14_AuditWithoutAssignment ==
    \E u \in UpdateCalls :
        /\ ucall[u].pc = "done"
        /\ ucall[u].result = "dberror"
        /\ ucall[u].audits = 1
        /\ assignAudits[ucall[u].id] = 1
        /\ mentionState[ucall[u].id] # ASSIGNMENT
        /\ assignee[ucall[u].id] = Null

----------------------------------------------------------------------------
(* Properties of listMentions and of the fetch pipeline *)

TimerWinsInStep ==
    /\ lcall.pc = "racing" /\ lcall'.pc = "select"
    /\ fworker[1].pc # "done"

ListReturnsInStep == lcall.pc = "select" /\ lcall'.pc = "done"

FetchRunning(w) == fworker[w].pc \in {"posts", "query", "create", "comments", "finish"}

\* C15: a listMentions call always returns; when the timer fires before the
\* background fetch has completed, the call returns the mentions stored at that
\* moment with meta.isSyncing = true; neither the timer nor the return changes the
\* state of the fetch, which can go on to its end.
C15_ReturnsStoredWhileSyncing ==
    /\ [][TimerWinsInStep => (lcall'.isSyncing /\ fworker' = fworker)]_vars
    /\ [][ListReturnsInStep => (/\ lcall'.result = rows
                                /\ lcall'.isSyncing = lcall.isSyncing
                                /\ fworker' = fworker)]_vars
    /\ []((lcall.pc \in {"select", "done"} /\ FetchRunning(1)) => ENABLED ListFetchStep)
    /\ (lcall.pc = "racing") ~> (lcall.pc = "done")

\* the call returned an empty listing with isSyncing = true, and its fetch then ran
\* to its end and stored a mention
C15_FetchCompletedAfterReturn ==
    /\ lcall.pc = "done"
    /\ lcall.isSyncing
    /\ lcall.result = <<>>
    /\ fworker[1].pc = "done"
    /\ fworker[2].pc = "idle"
    /\ rows # <<>>
    /\ \E x \in ftasks : x.id = fworker[1].task /\ x.finishedAt # Null

\* the FETCH_COMMENTS tasks created in the 10 minutes before t
RecentFetchTasks(ts, t) == {x \in ts : x.createdAt >= t - FETCH_INTERVAL}

QueryEndsInStep(w) == fworker[w].pc = "query" /\ fworker'[w].pc # "query"

\* C16 as written: the posts fetchAndSyncMentions decides to fetch contain no post
\* of a FETCH_COMMENTS task created in the last 10 minutes, finished or not, and
\* when no post is left no task is created.
C16_NoRefetchOfRecentPosts ==
    [][\A w \in FetchWorkers :
          QueryEndsInStep(w) =>
              /\ \A x \in RecentFetchTasks(ftasks, now) :
                     PostsIn(fworker'[w].toFetch) \cap PostsIn(x.posts) = {}
              /\ fworker'[w].toFetch = <<>> => fworker'[w].pc = "done"]_vars

\* the same for the recent tasks that are finished
C16_NoRefetchOfFinishedPosts ==
    [][\A w \in FetchWorkers :
          QueryEndsInStep(w) =>
              /\ \A x \in RecentFetchTasks(ftasks, now) :
                     x.finishedAt # Null =>
                         PostsIn(fworker'[w].toFetch) \cap PostsIn(x.posts) = {}
              /\ fworker'[w].toFetch = <<>> => fworker'[w].pc = "done"]_vars

\* a caller read an unfinished task of the last 10 minutes and still created a task
\* for one of its posts
C16_RefetchedWhileUnfinished ==
    \E w \in FetchWorkers : \E x, y \in ftasks :
        /\ x.id \in fworker[w].seen
        /\ y.id = fworker[w].task
        /\ y.createdAt - x.createdAt < FETCH_INTERVAL
        /\ PostsIn(x.posts) \cap PostsIn(y.posts) # {}

\* C17 as written: no post is in two FETCH_COMMENTS tasks created less than 10
\* minutes apart, however the callers overlap.
C17_NoPostInTwoRecentTasks ==
    \A x, y \in ftasks :
        (x.id < y.id /\ y.createdAt - x.createdAt < FETCH_INTERVAL)
        => PostsIn(x.posts) \cap PostsIn(y.posts) = {}

\* two callers ran their query before either had created its task, and both created
\* a task for the same post at the same time
C17_RacedCallers ==
    /\ fworker[1].seen = {} /\ fworker[2].seen = {}
    /\ \E x, y \in ftasks :
          /\ x.id = fworker[1].task /\ y.id = fworker[2].task
          /\ x.createdAt = y.createdAt
          /\ PostsIn(x.posts) \cap PostsIn(y.posts) # {}

\* the tasks a crashed caller left unfinished
CrashedTasks == {x \in ftasks : \E w \in FetchWorkers :
                    fworker[w].pc = "crashed" /\ fworker[w].task = x.id}

\* C20 as written: the fetch recovery of a starting process selects every
\* FETCH_COMMENTS task a crashed process left with finishedAt = NULL and startedAt
\* in the last 10 minutes.
C20_StartupRecoversFetchTasks ==
    [][(frecov.pc = "down" /\ frecov'.pc = "up")
       => \A x \in CrashedTasks :
             (x.finishedAt = Null /\ x.startedAt >= now - FETCH_INTERVAL)
             => x.id \in frecov'.jobs]_vars

\* a process started while a crashed caller's task of the last 10 minutes was
\* unfinished, and its recovery selected nothing
C20_CrashedTaskNotRecovered ==
    /\ frecov.pc = "up"
    /\ frecov.jobs = {}
    /\ \E x \in CrashedTasks : x.finishedAt = Null /\ x.startedAt >= now - FETCH_INTERVAL

----------------------------------------------------------------------------
(* Properties of the reply pipeline and of its recovery *)

\* processReplyTask, called by reply, ends in this step: the upstream call threw, or
\* the transaction committed
ProcessEndsInStep(c) ==
    \/ rcall[c].pc = "upstream" /\ rcall'[c].pc = "ignore"
    \/ rcall[c].pc = "commit" /\ rcall'[c].pc = "done"

\* C18 as written: when the processReplyTask of a reply whose task insert succeeded
\* ends, the parent mention is REPLIED or PROVIDER_ERROR.
C18_ReplyEndsRepliedOrError ==
    [][\A c \in ReplyCalls :
          ProcessEndsInStep(c) =>
              mentionState'[rcall[c].mention] \in {REPLIED, PROVIDER_ERROR}]_vars

\* the same when the upstream call returned a result
C18_ResultAdvancesState ==
    [][\A c \in ReplyCalls :
          (rcall[c].pc = "commit" /\ rcall'[c].pc = "done") =>
              mentionState'[rcall[c].mention] =
                  IF rcall[c].result = "success" THEN REPLIED ELSE PROVIDER_ERROR]_vars

\* the only reply to the mention created its task, its upstream call threw, and the
\* mention is left at REPLY_ATTEMPT
C18_LeftAtReplyAttempt ==
    /\ Cardinality(CallsFor("m1")) = 1
    /\ recov.pc = "down"
    /\ \E c \in ReplyCalls :
          /\ rcall[c].pc = "done"
          /\ rcall[c].task # 0
          /\ rcall[c].result = "throw"
    /\ mentionState["m1"] = REPLY_ATTEMPT

\* a REPLY_MENTION task of the last 5 minutes that a failed reply left unfinished
\* and that nothing is processing
LeftUnfinished(x) ==
    /\ x \in RecentUnfinished(tasks, now)
    /\ rcall[1].pc = "done"
    /\ \A j \in recov.jobs : j.task = x.id => j.pc = "done"

\* C19 as written: a listMentions call activates the reply recovery: every task a
\* failed reply left unfinished in the last 5 minutes is handed to processReplyTask.
C19_ListActivatesRecovery ==
    [][(lcall.pc = "idle" /\ lcall'.pc = "racing")
       => \A x \in tasks :
             LeftUnfinished(x) =>
                 \E j \in recov'.jobs : j.task = x.id /\ j.pc # "done"]_vars

\* a reply failed, a listMentions call ran to its end within the 5 minutes, no
\* process started, and the task was not processed again
C19_ListedButNotRetried ==
    /\ lcall.pc = "done"
    /\ recov.pc = "down"
    /\ ticks = 0
    /\ upstreamOk["m1"] = 0
    /\ \E x \in tasks : LeftUnfinished(x) /\ x.result = "other"

----------------------------------------------------------------------------
(* Properties of the ignored attempts and of the audit trail *)

\* the catch block of reply inserts its REPLY_MENTION_IGNORED task in this step
IgnoresInStep(c) == rcall[c].pc = "ignore" /\ rcall'[c].pc = "done"

\* C22 as written: an attempt inserts a REPLY_MENTION_IGNORED task (startedAt =
\* finishedAt) exactly when its REPLY_MENTION insert was rejected by the unique
\* index; it then ends without an upstream call, and an attempt whose insert
\* succeeded inserts no REPLY_MENTION_IGNORED task.
C22_IgnoredIffInsertRejected ==
    /\ [][\A c \in ReplyCalls :
             (rcall[c].pc = "insert" /\ rcall'[c].pc = "ignore")
             => (tasks' = tasks /\ upstreamOk' = upstreamOk)]_vars
    /\ [][\A c \in ReplyCalls :
             IgnoresInStep(c) =>
                 /\ rcall[c].task = 0
                 /\ rcall[c].result = "none"
                 /\ \E x \in tasks' \ tasks :
                       /\ x.code = REPLY_MENTION_IGNORED
                       /\ x.startedAt = x.finishedAt]_vars

\* the part about a rejected insert: the attempt goes to the catch block without
\* an upstream call, and the task it records there has startedAt = finishedAt
C22_RejectedInsertIsIgnored ==
    /\ [][\A c \in ReplyCalls :
             (rcall[c].pc = "insert" /\ rcall'[c].pc = "ignore")
             => (tasks' = tasks /\ upstreamOk' = upstreamOk)]_vars
    /\ [][\A c \in ReplyCalls :
             IgnoresInStep(c) =>
                 \E x \in tasks' \ tasks :
                     /\ x.code = REPLY_MENTION_IGNORED
                     /\ x.startedAt = x.finishedAt]_vars

\* an attempt created its REPLY_MENTION task and, its upstream call having thrown,
\* also left a REPLY_MENTION_IGNORED task
C22_IgnoredAfterOwnInsert ==
    \E c \in ReplyCalls : \E x, y \in tasks :
        /\ rcall[c].pc = "done" /\ rcall[c].threw
        /\ x.id = rcall[c].task /\ x.code = REPLY_MENTION
        /\ y.id = x.id + 1 /\ y.code = REPLY_MENTION_IGNORED
        /\ y.mentionId = x.mentionId
        /\ y.startedAt = rcall[c].now

\* C23 as written: a step that sets a mention's state to REPLY_ATTEMPT or
\* PROVIDER_ERROR writes an audit row for that mention.
C23_StateChangesAudited ==
    [][\A m \in Mentions :
          (mentionState'[m] # mentionState[m]
           /\ mentionState'[m] \in {REPLY_ATTEMPT, PROVIDER_ERROR})
          => audits'[m] = audits[m] + 1]_vars

\* the part about REPLY_ATTEMPT
C23_ReplyAttemptAudited ==
    [][\A m \in Mentions :
          (mentionState'[m] # mentionState[m] /\ mentionState'[m] = REPLY_ATTEMPT)
          => audits'[m] = audits[m] + 1]_vars

\* a single reply ended with the mention at PROVIDER_ERROR, and the only audit row
\* of the mention is the REPLY_ATTEMPT one
C23_ProviderErrorWithoutAudit ==
    /\ Cardinality(CallsFor("m1")) = 1
    /\ AllEnded("m1")
    /\ recov.pc = "down"
    /\ mentionState["m1"] = PROVIDER_ERROR
    /\ audits["m1"] = 1

\* C24 as written: an update whose patch was rejected by the store has left no
\* ASSIGNMENT audit row: the rows of table audits for the mention are those of the
\* updates that were applied.
C24_AuditAndPatchTogether ==
    \A id \in Mentions :
        (\A u \in UpdateCalls : ucall[u].id = id => ucall[u].pc \in {"idle", "done"})
        => assignAudits[id] =
             Cardinality({u \in UpdateCalls :
                            /\ ucall[u].id = id
                            /\ ucall[u].result = "ok"
                            /\ ucall[u].state = ASSIGNMENT})

\* a mention assigned to user 1 by a first update; a second update to a user that
\* does not exist was rejected, and its audit row is in the store
C24_AuditOfRejectedPatchRemains ==
    /\ ucall[1].pc = "done" /\ ucall[1].result = "ok" /\ ucall[1].id = "m1"
    /\ ucall[2].pc = "done" /\ ucall[2].result = "dberror" /\ ucall[2].id = "m1"
    /\ assignee["m1"] = 1
    /\ assignAudits["m1"] = 2

----------------------------------------------------------------------------
(* Properties of processFetchTask under failing comment requests *)

\* processFetchTask leaves its comments phase in this step, the process alive
CommentsEndInStep(w) ==
    fworker[w].pc = "comments" /\ fworker'[w].pc \notin {"comments", "crashed"}

TaskOf(w) == {x \in ftasks : x.id = fworker[w].task}

\* C25: whatever subset of the comment requests of a task fails, processFetchTask
\* has stored the comments of the posts whose request succeeded and goes on to its
\* Task.update, which sets finishedAt; a finished task is not among the tasks a
\* starting process selects for recovery.
C25_PostFailureDoesNotFailTask ==
    /\ [][\A w \in FetchWorkers :
             CommentsEndInStep(w) =>
                 /\ fworker'[w].pc = "finish"
                 /\ fworker'[w].got \subseteq PostsIn(fworker[w].toFetch)
                 /\ \A p \in fworker'[w].got : CommentOf(p) \in RefsIn(rows')]_vars
    /\ [][\A w \in FetchWorkers :
             (fworker[w].pc = "finish" /\ fworker'[w].pc = "done")
             => \A x \in ftasks' : x.id = fworker[w].task => x.finishedAt = now]_vars
    /\ [][(frecov.pc = "down" /\ frecov'.pc = "up")
          => \A x \in ftasks : x.finishedAt # Null => x.id \notin frecov'.jobs]_vars

\* a task of two posts: the comments request failed for one of them, the comment of
\* the other is stored and the task is finished
C25_FinishedDespiteFailedPost ==
    \E w \in FetchWorkers :
        /\ fworker[w].pc = "done"
        /\ Cardinality(PostsIn(fworker[w].toFetch)) = 2
        /\ Cardinality(fworker[w].got) = 1
        /\ \A p \in fworker[w].got : CommentOf(p) \in RefsIn(rows)
        /\ \A p \in PostsIn(fworker[w].toFetch) \ fworker[w].got :
              CommentOf(p) \notin RefsIn(rows)
        /\ \E x \in TaskOf(w) : x.finishedAt # Null

----------------------------------------------------------------------------
(* Properties of table audits *)

\* the rows of table audits that reference mention m
AuditRows(m) == audits[m] + assignAudits[m]

\* an audit call of reply or of update commits in this step
AuditWrittenInStep(m) ==
    \/ \E c \in ReplyCalls :
          /\ rcall[c].mention = m
          /\ rcall[c].pc = "insert" /\ rcall'[c].pc = "upstream"
    \/ \E u \in UpdateCalls :
          /\ ucall[u].id = m
          /\ ucall[u].pc = "audit" /\ ucall'[u].pc = "apply"

\* C26: no step of an update, a reply, processReplyTask, a fetch or a recovery
\* removes or replaces a committed audit row: the rows of a mention never become
\* fewer, and every audit call adds one row to those already there.
C26_AuditsInsertOnly ==
    [][\A m \in Mentions :
          /\ audits'[m] >= audits[m]
          /\ assignAudits'[m] >= assignAudits[m]
          /\ AuditWrittenInStep(m) => AuditRows(m)' = AuditRows(m) + 1]_vars

\* a reply that failed, its recovery, two updates (one rejected) and a fetch have
\* all ended, and the three audit rows written on the way are in the table
C26_TrailKept ==
    /\ rcall[1].pc = "done" /\ rcall[1].result = "other"
    /\ recov.pc = "up" /\ \A j \in recov.jobs : j.pc = "done"
    /\ recov.jobs # {}
    /\ \A u \in UpdateCalls : ucall[u].pc = "done" /\ ucall[u].audits = 1
    /\ \E u \in UpdateCalls : ucall[u].result = "dberror"
    /\ fworker[1].pc = "done"
    /\ AuditRows("m1") = 3

----------------------------------------------------------------------------
(* Properties of the retry engine *)

\* the attempt of the call in slot 1 of instance A ends in this step by an
\* exception: fn threw, or execute rejected the call
AttemptFailsInStep ==
    \/ call["A"][1].pc = "fn" /\ hist'["A"].lastFn \in {"failed", "opened"}
                              /\ call'["A"][1].pc # "fn"
    \/ call["A"][1].pc \in {"idle", "init", "sleep"}
       /\ call'["A"][1].pc \in {"idle", "sleep"}
       /\ hist'["A"].lastExecute = "rejected"
       /\ (call'["A"][1] # call["A"][1] \/ callsMade' # callsMade)

\* C27: a call of the retry engine makes at most maxRetries + 1 attempts: the
\* attempt number never exceeds maxRetries and grows by one only when a sleep ends;
\* a successful attempt ends the call; a failed attempt ends the call when it was
\* attempt maxRetries or when the breaker is then OPEN or HALF_OPEN (shouldRetry is
\* false) or when the first non-retryable HTTP error occurs; the engine sleeps only
\* after a failed attempt that was not the last.
C27_AtMostMaxRetriesPlusOne ==
    [][LET c == call["A"][1]
           d == call'["A"][1]
       IN /\ d.attempt <= maxRetries
          /\ d.attempt # c.attempt =>
                \/ c.pc = "sleep" /\ d.attempt = c.attempt + 1
                \/ d.attempt = 0
          /\ (c.pc = "fn" /\ d.pc # "fn" /\ hist'["A"].lastFn = "ok"
              /\ localState'["A"].failures = 0) => d = IdleCall
          /\ (AttemptFailsInStep /\ c.pc = "fn" /\ c.attempt = maxRetries) => d.pc = "idle"
          /\ (AttemptFailsInStep /\ localState'["A"].state \in {OPEN, HALF_OPEN})
                => d.pc = "idle"
          /\ (AttemptFailsInStep /\ hist["A"].retryableOnly /\ ~hist'["A"].retryableOnly)
                => d.pc = "idle"
          /\ (d.pc = "sleep" /\ c.pc # "sleep")
                => (c.pc = "fn" /\ c.attempt < maxRetries /\ d.attempt = c.attempt
                    /\ hist'["A"].lastFn = "failed")]_vars

\* the last attempt the engine allows is in flight: maxRetries attempts of the call
\* have failed, each followed by a sleep
C27_LastAttemptInFlight ==
    /\ call["A"][1].pc = "fn"
    /\ call["A"][1].attempt = maxRetries
    /\ localState["A"].state = CLOSED
    /\ localState["A"].failures >= maxRetries
    /\ callsMade = 1

----------------------------------------------------------------------------
(* Properties of a failed probe *)

\* fn, invoked as the probe of a HALF_OPEN circuit, throws in this step
ProbeFailsInStep ==
    /\ call["A"][1].pc = "fn" /\ call'["A"][1].pc # "fn"
    /\ call["A"][1].entered = HALF_OPEN
    /\ localState["A"].state = HALF_OPEN
    /\ hist'["A"].lastFn \in {"failed", "opened"}

\* the circuit is OPEN since a probe failed
ReopenedByProbe ==
    LET v == visited["A"]
    IN /\ Len(v) >= 2
       /\ v[Len(v)] = OPEN /\ v[Len(v) - 1] = HALF_OPEN
       /\ localState["A"].state = OPEN

\* when the calls of the process follow one another: a failing probe leaves the
\* breaker OPEN with nextAttemptTime = now + resetTimeout (now as execute read it),
\* issues a write of that state and ends the call; every later call made before the
\* new nextAttemptTime is rejected without fn being invoked and changes nothing
C28_FailedProbeReopens ==
    /\ [][ProbeFailsInStep =>
             /\ localState'["A"].state = OPEN
             /\ localState'["A"].nextAttemptTime = call["A"][1].now + resetTimeout
             /\ localState'["A"].lastFailureTime = call["A"][1].now
             /\ pending'["A"] = Append(pending["A"], Snapshot(localState'["A"]))
             /\ call'["A"][1] = IdleCall]_vars
    /\ [][(ReopenedByProbe /\ now < localState["A"].nextAttemptTime
           /\ callsMade' # callsMade)
          => /\ call'["A"][1] = IdleCall
             /\ hist'["A"].lastExecute = "rejected"
             /\ hist'["A"].lastFn = hist["A"].lastFn
             /\ localState' = localState
             /\ pending' = pending]_vars

\* the probe made at 130000 failed, and a call made 30 s later was rejected: the
\* new window ends at 190000
C28_RejectedAfterFailedProbe ==
    /\ ReopenedByProbe
    /\ localState["A"].nextAttemptTime = StartTime + TickMs + resetTimeout
    /\ now = StartTime + 2 * TickMs
    /\ hist["A"].lastExecute = "rejected"
    /\ hist["A"].lastFn = "opened"
    /\ call["A"][1].pc = "idle"
    /\ callsMade >= 2

\* fn, invoked by the call in slot s while the circuit was HALF_OPEN, throws in
\* this step
ProbeOfSlotFailsInStep(s) ==
    /\ call["A"][s].pc = "fn" /\ call'["A"][s].pc # "fn"
    /\ call["A"][s].entered = HALF_OPEN
    /\ localState'["A"].failures = localState["A"].failures + 1

\* C28 as written, for callers that may overlap: a failing probe leaves the breaker
\* OPEN with nextAttemptTime = now + resetTimeout and a write of that state issued,
\* and a breaker re-opened by a failed probe stays OPEN, so that execute rejects,
\* until the clock reaches that nextAttemptTime.
C28_FailedProbeKeepsCircuitOpen ==
    /\ [][\A s \in Slots :
             ProbeOfSlotFailsInStep(s) =>
                 /\ localState'["A"].state = OPEN
                 /\ localState'["A"].nextAttemptTime = call["A"][s].now + resetTimeout
                 /\ Len(pending'["A"]) = Len(pending["A"]) + 1]_vars
    /\ [][(ReopenedByProbe /\ localState'["A"].state # OPEN)
          => now >= localState["A"].nextAttemptTime]_vars

\* a probe failed and re-opened the circuit; a second probe, admitted while the
\* first was in flight, then succeeded: the circuit is CLOSED before the window set
\* by the failed probe has passed
C28_ClosedInsideWindow ==
    LET v == visited["A"]
    IN /\ Len(v) >= 3
       /\ v[Len(v)] = CLOSED /\ v[Len(v) - 1] = OPEN /\ v[Len(v) - 2] = HALF_OPEN
       /\ localState["A"].state = CLOSED
       /\ hist["A"].lastFn = "ok"
       /\ now = StartTime + TickMs

----------------------------------------------------------------------------
(* Properties of the transactions of reply and of processReplyTask *)

\* the transaction of step 1 of the reply in call c ends in this step
InsertEndsInStep(c) == rcall[c].pc = "insert" /\ rcall'[c].pc # "insert"

\* C29: the transaction of step 1 either commits the REPLY_MENTION task, the
\* REPLY_ATTEMPT audit row and the state REPLY_ATTEMPT together, or, the unique
\* index having rejected the task, leaves tasks, audits and the mention state as
\* they were; no other step writes a REPLY_ATTEMPT audit row.
C29_StepOneAllOrNothing ==
    /\ [][\A c \in ReplyCalls :
             InsertEndsInStep(c) =>
                 LET m == rcall[c].mention
                     new == tasks' \ tasks
                 IN \/ /\ rcall'[c].pc = "upstream"
                       /\ Cardinality(new) = 1
                       /\ \A x \in new : /\ x.code = REPLY_MENTION
                                         /\ x.mentionId = m
                                         /\ x.id = rcall'[c].task
                       /\ tasks \subseteq tasks'
                       /\ audits'[m] = audits[m] + 1
                       /\ mentionState'[m] = REPLY_ATTEMPT
                    \/ /\ rcall'[c].pc = "ignore"
                       /\ \E x \in tasks : x.code = REPLY_MENTION /\ x.mentionId = m
                       /\ tasks' = tasks
                       /\ audits' = audits
                       /\ mentionState' = mentionState]_vars
    /\ [][audits' # audits => \E c \in ReplyCalls :
                                 InsertEndsInStep(c) /\ rcall'[c].pc = "upstream"]_vars

\* a reply has won and was answered; a second reply to the same mention had its
\* insert rejected: one audit row, and the state the first reply left
C29_RejectedInsertLeftNothing ==
    \E c, d \in ReplyCalls :
        /\ c # d
        /\ rcall[d].pc = "done" /\ rcall[d].task # 0 /\ rcall[d].result = "success"
        /\ rcall[c].mention = rcall[d].mention
        /\ rcall[c].pc = "ignore" /\ rcall[c].task = 0
        /\ audits[rcall[c].mention] = 1
        /\ mentionState[rcall[c].mention] = REPLIED
        /\ recov.pc = "down"

\* C30 as written: in every committed state, a REPLY_MENTION task has finishedAt set
\* if and only if a child REPLY mention of its mention exists.
C30_FinishedIffChild ==
    \A x \in tasks :
        x.code = REPLY_MENTION => (x.finishedAt # Null <=> children[x.mentionId] > 0)

\* the commit of a successful reply: child, REPLIED and, on the task row if it is
\* still there, finishedAt, in one step
C30_SuccessCommitsTogether ==
    [][\A m \in Mentions :
          children'[m] # children[m] =>
              /\ children'[m] = children[m] + 1
              /\ mentionState'[m] = REPLIED
              /\ \A x \in tasks' \ tasks : /\ x.code = REPLY_MENTION /\ x.mentionId = m
                                            /\ x.finishedAt = now]_vars

\* the task is unfinished although the child mention of a successful reply exists
C30_ChildOfUnfinishedTask ==
    \E x \in tasks :
        /\ x.code = REPLY_MENTION
        /\ x.finishedAt = Null
        /\ children[x.mentionId] = 1
        /\ upstreamOk[x.mentionId] = 1
        /\ AllEnded(x.mentionId)
        /\ \A j \in recov.jobs : j.pc = "done"

----------------------------------------------------------------------------
(* Properties of the health endpoint *)

\* C21: the status findHealth reports is healthy if and only if every row its
\* query returned has state CLOSED, and degraded otherwise; there is one circuit
\* entry per row, with healthy = (state = CLOSED); the rows are those of the table
\* when the query ran; the response is 200 when the status is healthy, 503 when not.
C21_HealthyIffAllClosed ==
    /\ []((hcall.pc \in {"built", "done"} /\ hcall.code # 500) =>
            LET b == hcall.body
            IN /\ b.status \in {"healthy", "degraded"}
               /\ b.status = "healthy" <=>
                     \A r \in hcall.rows : r.state_data.state = CLOSED
               /\ Cardinality(b.circuits) = Cardinality(hcall.rows)
               /\ \A r \in hcall.rows : \E h \in b.circuits :
                     /\ h.platform = r.circuit_name
                     /\ h.state = r.state_data.state
                     /\ h.healthy = (r.state_data.state = CLOSED)
               /\ hcall.pc = "done" =>
                     hcall.code = IF b.status = "healthy" THEN 200 ELSE 503)
    /\ [][(hcall.pc = "query" /\ hcall'.pc = "built") =>
             /\ \A r \in hcall'.rows :
                   IF r.circuit_name = ModelledKey
                   THEN cbRow.exists /\ r.state_data = cbRow.data
                   ELSE /\ otherRows[r.circuit_name].exists
                        /\ r.state_data = otherRows[r.circuit_name].data
             /\ cbRow.exists => \E r \in hcall'.rows : r.circuit_name = ModelledKey
             /\ \A k \in OtherKeys :
                   otherRows[k].exists => \E r \in hcall'.rows : r.circuit_name = k]_vars

\* three circuits have a row, two of them CLOSED and one HALF_OPEN: the endpoint
\* answered 503 with status degraded
C21_DegradedByOneCircuit ==
    /\ hcall.pc = "done"
    /\ hcall.code = 503
    /\ hcall.body.status = "degraded"
    /\ Cardinality(hcall.rows) = 3
    /\ Cardinality({r \in hcall.rows : r.state_data.state = CLOSED}) = 2
    /\ \E r \in hcall.rows : r.state_data.state = HALF_OPEN

----------------------------------------------------------------------------
(* Properties of the result handling of processReplyTask *)

\* the commit of a processReplyTask started by the recovery loop
JobCommitsInStep(j) ==
    /\ j \in recov.jobs
    /\ j.pc = "commit"
    /\ recov'.jobs = (recov.jobs \ {j}) \cup {[j EXCEPT !.pc = "done"]}

\* what processReplyTask has written when its transaction commits with result res
\* for task id of mention m
ResultWritten(m, id, res) ==
    /\ res # "success" =>
          /\ mentionState'[m] = PROVIDER_ERROR
          /\ children' = children
          /\ \A x \in tasks' : x.id = id => x.finishedAt = Null
    /\ \A x \in tasks' : x.id = id => x.result = res
    /\ \A x \in tasks : x.id = id => \E y \in tasks' : y.id = id

\* C31: when the upstream reply returns a result whose status is not success,
\* processReplyTask sets the parent state to PROVIDER_ERROR, leaves finishedAt of
\* the task NULL and creates no child mention; the result is stored in the task,
\* on success as well. This holds for the operator path and for the recovery loop.
C31_NonSuccessMarksProviderError ==
    /\ [][\A c \in ReplyCalls :
             (rcall[c].pc = "commit" /\ rcall'[c].pc = "done") =>
                 ResultWritten(rcall[c].mention, rcall[c].task, rcall[c].result)]_vars
    /\ [][\A j \in recov.jobs :
             JobCommitsInStep(j) => ResultWritten(j.mention, j.task, j.result)]_vars

\* a reply whose upstream result was not a success has ended: the mention is in
\* PROVIDER_ERROR, its task is unfinished and holds the result, no child exists
C31_ProviderErrorStored ==
    \E c \in ReplyCalls :
        /\ rcall[c].pc = "done"
        /\ rcall[c].result = "other"
        /\ mentionState[rcall[c].mention] = PROVIDER_ERROR
        /\ children[rcall[c].mention] = 0
        /\ \E x \in tasks : /\ x.id = rcall[c].task
                            /\ x.code = REPLY_MENTION
                            /\ x.finishedAt = Null
                            /\ x.result = "other"

----------------------------------------------------------------------------
(* Properties of the fan-out helper *)

\* the operation of entity i is started in this step
OpStartsInStep(i) == fan.ops[i] = "none" /\ fan'.ops[i] # "none"

\* the entities of the batches before the batch of entity i
EarlierBatches(i, limit) == 1..(limit * ((i - 1) \div limit))

\* C32: a processPromises call with limit K never has more than K operations in
\* flight; the entities are submitted in input order; and no operation of a batch
\* is started before every operation of the batch before it has completed.
C32_AtMostLimitInFlight ==
    /\ [](Cardinality({i \in Entities : fan.ops[i] = "running"}) <= fan.limit)
    /\ [][\A i \in Entities :
             OpStartsInStep(i) =>
                 /\ i = fan.index + 1
                 /\ \A j \in 1..(i - 1) : fan.ops[j] # "none"
                 /\ \A j \in EarlierBatches(i, fan.limit) :
                       fan.ops[j] \in {"ok", "failed"}]_vars

\* four entities with limit 2: the third operation runs after the first two have
\* completed, and the fourth has not been started
C32_SecondBatchRunning ==
    /\ fan.limit = 2
    /\ fan.n = 4
    /\ fan.ops[1] = "ok" /\ fan.ops[2] = "ok"
    /\ fan.ops[3] = "running"
    /\ fan.ops[4] = "none"
    /\ fan.data = <<1, 2>>

\* the batch of entity i, counted from 0
BatchOf(i, limit) == (i - 1) \div limit

\* C33: with breakOnError true the first failure aborts the traversal: the await
\* that holds the failed operation ends in a rejection with the error of the first
\* failure, the call never resolves after a failure, and no operation of a later
\* batch is started. With breakOnError false the call never rejects, each failure
\* is passed to onError exactly once, and the call resolves only when every
\* entity has been processed.
C33_BreakOnErrorAbortsOrContinues ==
    /\ [](fan.breakOnError =>
            /\ \A i, j \in Entities :
                  (fan.ops[i] = "failed" /\ fan.ops[j] # "none")
                  => BatchOf(j, fan.limit) <= BatchOf(i, fan.limit)
            /\ fan.pc = "rejected" =>
                  /\ fan.error # 0
                  /\ fan.error = fan.failedFirst
                  /\ fan.ops[fan.error] = "failed"
            /\ fan.pc = "resolved" => \A i \in Entities : fan.ops[i] # "failed"
            /\ \A i \in Entities : fan.onError[i] = 0)
    /\ [][(fan.breakOnError /\ fan.pc \in {"await", "last"} /\ fan'.pc # fan.pc
           /\ \E i \in Entities : fan.ops[i] = "failed")
          => fan'.pc = "rejected"]_vars
    /\ [](~fan.breakOnError =>
            /\ fan.pc # "rejected"
            /\ \A i \in Entities :
                  fan.onError[i] = IF fan.ops[i] = "failed" THEN 1 ELSE 0
            /\ fan.pc = "resolved" =>
                  /\ \A i \in 1..fan.n : fan.ops[i] \in {"ok", "failed"}
                  /\ Len(fan.data) = fan.n)

\* breakOnError true, four entities with limit 2: the first operation failed and
\* the call rejected with its error without starting the third and the fourth
C33_AbortedAfterFirstBatch ==
    /\ fan.breakOnError
    /\ fan.limit = 2
    /\ fan.n = 4
    /\ fan.pc = "rejected"
    /\ fan.error = 1
    /\ fan.ops[1] = "failed"
    /\ fan.ops[3] = "none" /\ fan.ops[4] = "none"

\* breakOnError false, four entities with limit 2: the first operation failed,
\* onError got it once, the other three were processed and the call resolved
C33_ContinuedAfterFailure ==
    /\ ~fan.breakOnError
    /\ fan.limit = 2
    /\ fan.n = 4
    /\ fan.pc = "resolved"
    /\ fan.ops[1] = "failed"
    /\ fan.onError[1] = 1
    /\ fan.data = <<0, 2, 3, 4>>

----------------------------------------------------------------------------
(* Properties of the reply recovery next to the operator path *)

\* the processReplyTask executions that are under way, by task: the operator
\* path of a reply call, and the jobs of the recovery loop
ProcessedByCall(id) == {c \in ReplyCalls : /\ rcall[c].pc \in {"upstream", "commit"}
                                           /\ rcall[c].task = id}

ProcessedByJob(id) == {j \in recov.jobs : j.pc \in {"upstream", "commit"} /\ j.task = id}

\* C34 as written: no REPLY_MENTION task is processed by two processReplyTask
\* executions at once: while the operator path processes a task, the recovery
\* loop has no processReplyTask under way for that task.
C34_OneProcessingPerTask ==
    \A x \in tasks : ProcessedByCall(x.id) # {} => ProcessedByJob(x.id) = {}

\* the operator path and the recovery loop have both processed one task, both
\* upstream calls were accepted, and the mention has two child replies
C34_TaskRepliedTwice ==
    \E c \in ReplyCalls, j \in recov.jobs :
        /\ rcall[c].pc = "done" /\ rcall[c].result = "success"
        /\ j.pc = "done" /\ j.result = "success"
        /\ j.task = rcall[c].task
        /\ upstreamOk[rcall[c].mention] = 2
        /\ children[rcall[c].mention] = 2
        /\ Cardinality({x \in tasks : x.code = REPLY_MENTION}) = 1

----------------------------------------------------------------------------
(* Properties of the transitions of the breaker under overlapping calls *)

\* C35 as written: the breaker never goes from OPEN directly to CLOSED: each
\* transition into CLOSED is taken from HALF_OPEN, and once OPEN the breaker stays
\* OPEN at least until nextAttemptTime.
C35_ClosedOnlyFromHalfOpen ==
    /\ [][(localState["A"].state # CLOSED /\ localState'["A"].state = CLOSED)
          => localState["A"].state = HALF_OPEN]_vars
    /\ [][(localState["A"].state = OPEN /\ localState'["A"].state # OPEN)
          => now >= localState["A"].nextAttemptTime]_vars

\* fn of one call returned while the circuit, opened by the failure of an
\* overlapping call, was OPEN: the success path set CLOSED at once, before the
\* clock had advanced at all
C35_ClosedFromOpen ==
    LET v == visited["A"]
    IN /\ Len(v) >= 2
       /\ v[Len(v)] = CLOSED /\ v[Len(v) - 1] = OPEN
       /\ localState["A"].state = CLOSED
       /\ hist["A"].lastFn = "ok"
       /\ now = StartTime
       /\ loadBuf["A"].st = "done"
       /\ loadBuf["A"].row.exists /\ loadBuf["A"].row.data.state = CLOSED

----------------------------------------------------------------------------
(* Properties of the initial load under overlapping calls *)

\* the initial load of the persisted state has been started and has not yet been
\* merged into localState
LoadUnderWay == loadBuf["A"].st \in {"inflight", "read"}

\* C36 as written: no execute call invokes fn before the initial load of the
\* persisted state has completed, and the completion of the load does not
\* overwrite a state change made by a call.
C36_NoFnBeforeLoad ==
    /\ [](\A s \in Slots : call["A"][s].pc = "fn" => ~LoadUnderWay)
    /\ [][(LoadUnderWay /\ ~LoadUnderWay')
          => (hist["A"].lastFn = "none" /\ Len(pending["A"]) = 0)]_vars

\* the persisted state is OPEN with nextAttemptTime in the future and its load is
\* under way, while the second of two overlapping calls has invoked fn
C36_FnInvokedDuringLoad ==
    /\ cbRow.exists
    /\ cbRow.data.state = OPEN
    /\ cbRow.data.nextAttemptTime > now
    /\ LoadUnderWay
    /\ call["A"][1].pc = "init"
    /\ call["A"][2].pc = "fn"
    /\ call["A"][2].entered = CLOSED

----------------------------------------------------------------------------
(* Properties of the persisted state next to the state in memory *)

\* the instance has loaded the persisted state, no execute call is in flight and
\* every write it issued has landed
Quiescent ==
    /\ loadBuf["A"].st = "done"
    /\ ~loadBuf["A"].failed
    /\ call["A"][1].pc = "idle"
    /\ pending["A"] = <<>>

\* C37 as written: whenever no execute call is in flight and all the writes of the
\* instance have landed in issue order, the persisted state_data agrees with the
\* state in memory on state, failures, lastFailureTime and nextAttemptTime.
C37_PersistedAgreesWithMemory ==
    (Quiescent /\ cbRow.exists) => cbRow.data = Snapshot(localState["A"])

\* a failure and then a success while CLOSED: the breaker holds failures = 0 and
\* lastFailureTime null, the row still shows one failure and its time
C37_RowKeepsFailureAfterSuccess ==
    /\ Quiescent
    /\ callsMade = 2
    /\ visited["A"] = <<CLOSED>>
    /\ hist["A"].lastFn = "ok"
    /\ localState["A"].failures = 0
    /\ localState["A"].lastFailureTime = Null
    /\ cbRow.exists
    /\ cbRow.data.state = CLOSED
    /\ cbRow.data.failures = 1
    /\ cbRow.data.lastFailureTime # Null

----------------------------------------------------------------------------
(* Properties of the state REPLIED *)

\* C38 as written: REPLIED is a stable state: once the state of a mention is
\* REPLIED, no later operation changes it to another value.
C38_RepliedIsStable ==
    [][\A m \in Mentions : mentionState[m] = REPLIED => mentionState'[m] = REPLIED]_vars

\* the reply to the mention was delivered and committed (one child, the task
\* finished), no recovery ran, and an update that assigned the mention to user 1
\* has left it in state ASSIGNMENT
C38_AssignedAfterReplied ==
    /\ rcall[1].pc = "done" /\ rcall[1].result = "success"
    /\ recov.pc = "down"
    /\ children["m1"] = 1
    /\ \E x \in tasks : x.code = REPLY_MENTION /\ x.mentionId = "m1" /\ x.finishedAt # Null
    /\ \E u \in UpdateCalls : /\ ucall[u].pc = "done" /\ ucall[u].result = "ok"
                              /\ ucall[u].id = "m1" /\ ucall[u].userId = 1
    /\ assignee["m1"] = 1
    /\ mentionState["m1"] = ASSIGNMENT

----------------------------------------------------------------------------
(* Properties of a finished reply task *)

FinishedReplyTasks(ts, m) ==
    {x \in ts : x.code = REPLY_MENTION /\ x.mentionId = m /\ x.finishedAt # Null}

\* the DELETE of reply call c runs in this step
CleanupInStep(c) == rcall[c].pc = "delete" /\ rcall'[c].pc = "insert"

\* the stale-task cleanup deletes only unfinished REPLY_MENTION tasks of the
\* mention older than the interval, and a reply that finds a finished
\* REPLY_MENTION task of its mention is ignored without an upstream call
C39_CleanupAndIndex ==
    /\ [][\A c \in ReplyCalls :
             CleanupInStep(c) =>
                 \A x \in tasks \ tasks' :
                     /\ x.code = REPLY_MENTION
                     /\ x.mentionId = rcall[c].mention
                     /\ x.finishedAt = Null
                     /\ x.startedAt < now - REPLY_INTERVAL]_vars
    /\ [][\A c \in ReplyCalls :
             (rcall[c].pc = "insert" /\ rcall'[c].pc # "insert"
              /\ FinishedReplyTasks(tasks, rcall[c].mention) # {})
             => (rcall'[c].pc = "ignore" /\ upstreamOk' = upstreamOk)]_vars

\* C39 as written: a finished REPLY_MENTION task is permanent: it stays in the
\* table, finished, so that every later reply to its mention is ignored.
C39_FinishedTaskIsPermanent ==
    /\ C39_CleanupAndIndex
    /\ [][\A m \in Mentions :
             \A x \in FinishedReplyTasks(tasks, m) :
                 \E y \in FinishedReplyTasks(tasks', m) : y.id = x.id]_vars

\* the reply of call 1 was delivered and its task finished; a recovery job of the
\* same task then got a non-success result and wrote finishedAt NULL; more than 5
\* minutes later call 2 is about to delete the task as stale and to reply again
C39_FinishedTaskAboutToBeDeleted ==
    /\ rcall[1].pc = "done" /\ rcall[1].result = "success"
    /\ rcall[2].pc = "delete"
    /\ rcall[3].pc = "idle"
    /\ children["m1"] = 1
    /\ \E j \in recov.jobs : j.task = rcall[1].task /\ j.pc = "done" /\ j.result = "other"
    /\ \E x \in StaleReplyTasks(tasks, "m1", now) : x.id = rcall[1].task /\ x.result = "other"

----------------------------------------------------------------------------
(* Properties of the re-ingestion *)

\* the insert statement of worker w ends in this step
StatementEndsInStep(w) == ingest[w].pc = "select" /\ ingest'[w].pc = "idle"

\* how many rows of rs hold ref
RowsWith(rs, ref) == Cardinality({k \in 1..Len(rs) : rs[k] = ref})

\* C40: a statement of _createMentions leaves every row that exists when it runs
\* as it is and where it is, inserts nothing for a ref that a row already holds,
\* and inserts the refs of its batch that no row holds, also when another worker
\* inserted the row after the statement took its snapshot.
C40_ExistingRowsUntouched ==
    [][\A w \in Workers :
          StatementEndsInStep(w) =>
              /\ Len(rows') >= Len(rows)
              /\ \A k \in 1..Len(rows) : rows'[k] = rows[k]
              /\ \A ref \in {rows[k] : k \in 1..Len(rows)} :
                    RowsWith(rows', ref) = RowsWith(rows, ref)
              /\ \A k \in 1..Len(ingest[w].list) :
                    RowsWith(rows', RefOf(ingest[w].list[k])) = 1]_vars

\* the row of comment c1 existed when the statement of worker 2 for the batch
\* c1, c2 took its snapshot: the table holds the old row first and one new row
C40_OldRowKeptNewRowAdded ==
    /\ ingest[1].pc = "idle" /\ ingest[1].rounds = 1 /\ ingest[1].list = <<"c1">>
    /\ ingest[2].pc = "idle" /\ ingest[2].rounds = 1
    /\ ingest[2].list = <<"c1", "c2">>
    /\ ingest[2].seen = {"c1"}
    /\ rows = <<"c1", "c2">>

====
